---------------------------- MODULE Spec2Model ----------------------------
(***************************************************************************)
(* A model of the ingest and time-alignment core of the sensor node       *)
(* daemon (sn2daemon): Timeline, stream decompressor, StreamBuffer,        *)
(* ControlProtocol, SensorNode2Protocol framing and the Ingestor gate,     *)
(* and of its way out: the daemon's bounded queues with the SenderService  *)
(* that empties them, and the PubSubSink; of the STATUS decoder, the       *)
(* RTCifier and the detect loop of the daemon.                             *)
(*                                                                         *)
(* Every component has its own specification (SpecTimeline, SpecRTCifier,  *)
(* SpecCodec, SpecBuffer, SpecBufferWrap, SpecExisting, SpecAlign,         *)
(* SpecControl, SpecControlLive, SpecRun, SpecProtocol, SpecStatus,        *)
(* SpecIngest, SpecBatch, SpecSender, SpecSink, SpecSinkBatches).  All of  *)
(* them start from the state after construction of                         *)
(* every component; a specification steps one component and leaves the     *)
(* others alone.                                                           *)
(***************************************************************************)
EXTENDS Integers, Sequences, FiniteSets, TLC

VARIABLES
    tl,         \* Timeline: [remote_tip, local_tip]          (timeline.py)
    tl_obs,     \* observer of the Timeline calls made so far (history)
    codec_in,   \* decompress: the arguments [average, packet]
    codec_out,  \* decompress: its outcome (status "pending" before the call)
    cp,         \* ControlProtocol: [connected, waiters, futs]
    cp_obs,     \* observer of the ControlProtocol calls made so far
    snp,        \* SensorNode2Protocol: [buffer, length, state]
    snp_net,    \* bytes the peer has sent that data_received has not got yet
    snp_obs,    \* observer: frames sent, messages delivered, exception seen
    ing,        \* Ingestor: [had_status, pre_status_buffer, ...] (daemon.py)
    ing_obs,    \* observer: messages arrived, ids processed, exception seen
    sb,         \* StreamBuffer (sensor_stream.Buffer): its fields
    sb_file,    \* the file "current" in its persistent directory
    sb_obs,     \* observer: blocks handed to on_emit, history of the calls
    dq,         \* daemon: its two queues, SenderService lock and tasks
    dq_obs,     \* observer: last enqueue, log, publish attempts
    sink,       \* PubSubSink: [queue]                            (sink.py)
    sink_obs,   \* observer: last submit_batch, batches given, log
    sm,         \* StatusMessage.from_buf: its argument and its outcome
    rt,         \* RTCifier: [aligned, rtcbase, timeline]      (timeline.py)
    rt_obs,     \* observer of the RTCifier calls made so far
    run,        \* SensorNode2Daemon.run: its position, its ControlProtocol
    bs          \* batch_samples: its argument and its outcome

tlVars == <<tl, tl_obs>>
codecVars == <<codec_in, codec_out>>
cpVars == <<cp, cp_obs>>
snpVars == <<snp, snp_net, snp_obs>>
ingVars == <<ing, ing_obs>>
sbVars == <<sb, sb_file, sb_obs>>
dqVars == <<dq, dq_obs>>
sinkVars == <<sink, sink_obs>>
smVars == <<sm>>
rtVars == <<rt, rt_obs>>
runVars == <<run>>
bsVars == <<bs>>

vars ==
    <<tl, tl_obs, codec_in, codec_out, cp, cp_obs, snp, snp_net, snp_obs,
      ing, ing_obs, sb, sb_file, sb_obs, dq, dq_obs, sink, sink_obs,
      sm, rt, rt_obs, run, bs>>

\* what the actions of one component leave alone
notTl ==
    <<codecVars, cpVars, snpVars, ingVars, sbVars, dqVars,
      sinkVars, smVars, rtVars, runVars, bsVars>>
notCodec ==
    <<tlVars, cpVars, snpVars, ingVars, sbVars, dqVars,
      sinkVars, smVars, rtVars, runVars, bsVars>>
notCp ==
    <<tlVars, codecVars, snpVars, ingVars, sbVars, dqVars,
      sinkVars, smVars, rtVars, runVars, bsVars>>
notSnp ==
    <<tlVars, codecVars, cpVars, ingVars, sbVars, dqVars,
      sinkVars, smVars, rtVars, runVars, bsVars>>
notIng ==
    <<tlVars, codecVars, cpVars, snpVars, sbVars, dqVars,
      sinkVars, smVars, rtVars, runVars, bsVars>>
notSb ==
    <<tlVars, codecVars, cpVars, snpVars, ingVars, dqVars,
      sinkVars, smVars, rtVars, runVars, bsVars>>
notDq ==
    <<tlVars, codecVars, cpVars, snpVars, ingVars, sbVars,
      sinkVars, smVars, rtVars, runVars, bsVars>>
notSink ==
    <<tlVars, codecVars, cpVars, snpVars, ingVars, sbVars,
      dqVars, smVars, rtVars, runVars, bsVars>>
notSm ==
    <<tlVars, codecVars, cpVars, snpVars, ingVars, sbVars,
      dqVars, sinkVars, rtVars, runVars, bsVars>>
notRt ==
    <<tlVars, codecVars, cpVars, snpVars, ingVars, sbVars,
      dqVars, sinkVars, smVars, runVars, bsVars>>
notRun ==
    <<tlVars, codecVars, cpVars, snpVars, ingVars, sbVars,
      dqVars, sinkVars, smVars, rtVars, bsVars>>
notBs ==
    <<tlVars, codecVars, cpVars, snpVars, ingVars, sbVars,
      dqVars, sinkVars, smVars, rtVars, runVars>>

None == "None"

(***************************************************************************)
(* Generic helpers                                                         *)
(***************************************************************************)
RECURSIVE SumSeq(_)
SumSeq(s) == IF s = <<>> THEN 0 ELSE Head(s) + SumSeq(Tail(s))

(***************************************************************************)
(* Timeline (src/sn2daemon/timeline.py)                                    *)
(***************************************************************************)

\* Parameters of the stand-alone Timeline under check: Timeline(TlW, TlSlack)
TlW == 8
TlSlack == 3
\* feed_and_transform / forward are not applied once local_tip reached this
MaxTip == 20
\* largest offset given to forward()
MaxForward == 9
\* longest observed run of feed_and_transform calls
MaxFeeds == 4

\* Timeline.__init__
Timeline_init == [remote_tip |-> 0, local_tip |-> 0]

\* a slip: the slack window closed at its far end
wraparound_aware_minus_inclusive(W, slack, v1, v2) ==
    LET naive_diff_forward == (v1 - v2) % W
        naive_diff_backward == (v2 - v1) % W
    IN  IF naive_diff_backward <= slack
        THEN -naive_diff_backward
        ELSE naive_diff_forward

\* a slip: the difference is always taken forward
wraparound_aware_minus_forward(W, slack, v1, v2) == (v1 - v2) % W

\* Timeline.wraparound_aware_minus
wraparound_aware_minus(W, slack, v1, v2) ==
    LET naive_diff_forward == (v1 - v2) % W
        naive_diff_backward == (v2 - v1) % W
    IN  IF naive_diff_backward < slack
        THEN -naive_diff_backward
        ELSE naive_diff_forward

\* Timeline.reset
reset(t, timestamp) == [remote_tip |-> timestamp, local_tip |-> 0]

\* a slip: the tip is not moved to the fed timestamp
feed_and_transform_keep_tip(W, slack, t, timestamp) ==
    LET change == wraparound_aware_minus(W, slack, timestamp, t.remote_tip)
    IN  IF -slack < change /\ change <= 0
        THEN [tl |-> t, ret |-> t.local_tip + change]
        ELSE [tl |-> [remote_tip |-> t.remote_tip,
                      local_tip |-> t.local_tip + change],
              ret |-> t.local_tip + change]

\* Timeline.feed_and_transform: the new state and the returned value
feed_and_transform(W, slack, t, timestamp) ==
    LET change == wraparound_aware_minus(W, slack, timestamp, t.remote_tip)
    IN  IF -slack < change /\ change <= 0
        THEN [tl |-> t, ret |-> t.local_tip + change]
        ELSE [tl |-> [remote_tip |-> timestamp,
                      local_tip |-> t.local_tip + change],
              ret |-> t.local_tip + change]

\* a slip: forward moves the local tip back
forward_backwards(W, t, offset) ==
    [remote_tip |-> (t.remote_tip + offset) % W,
     local_tip |-> t.local_tip - offset]

\* a slip: forward stops the remote tip at the top of its range instead of
\* wrapping it
forward_saturating(W, t, offset) ==
    [remote_tip |-> IF t.remote_tip + offset >= W THEN W - 1
                    ELSE t.remote_tip + offset,
     local_tip |-> t.local_tip + offset]

\* a slip: forward moves the remote tip by one step only
forward_one_step(W, t, offset) ==
    [remote_tip |-> (t.remote_tip + (IF offset > 0 THEN 1 ELSE 0)) % W,
     local_tip |-> t.local_tip + offset]

\* Timeline.forward
forward(W, t, offset) ==
    [remote_tip |-> (t.remote_tip + offset) % W,
     local_tip |-> t.local_tip + offset]

\* The observer: the last call (op, its argument, the state before it, the
\* value returned) and, for the run of feed_and_transform calls since
\* construction or the last reset: how many (n), the first and the last
\* returned value, the last fed timestamp, the sum of the jumps
\* (t_i - t_{i-1}) mod W, whether every jump was < W - slack (ok) and
\* whether the returned values never decreased (mono).
TlObsInit ==
    [op |-> "init", arg |-> 0, pre |-> Timeline_init, ret |-> 0,
     n |-> 0, first |-> 0, last |-> 0, last_t |-> 0, sum |-> 0,
     ok |-> TRUE, mono |-> TRUE, wraps |-> 0]

TimelineInit ==
    /\ tl = Timeline_init
    /\ tl_obs = TlObsInit

Timeline_feed_and_transform(timestamp) ==
    LET r == feed_and_transform(TlW, TlSlack, tl, timestamp)
        jump == (timestamp - tl_obs.last_t) % TlW
        call == [tl_obs EXCEPT !.op = "feed", !.arg = timestamp, !.pre = tl,
                               !.ret = r.ret]
    IN  /\ tl.local_tip < MaxTip
        /\ tl_obs.n < MaxFeeds
        /\ tl' = r.tl
        /\ tl_obs' =
             IF ~tl_obs.ok
             THEN call
             ELSE IF tl_obs.n = 0
             THEN [call EXCEPT !.n = 1, !.first = r.ret,
                               !.last = r.ret, !.last_t = timestamp]
             ELSE IF jump < TlW - TlSlack
             THEN [call EXCEPT !.n = @ + 1,
                               !.last = r.ret, !.last_t = timestamp,
                               !.sum = @ + jump,
                               !.mono = @ /\ r.ret >= tl_obs.last,
                               !.wraps = IF timestamp < tl_obs.last_t
                                         THEN @ + 1 ELSE @]
             ELSE [TlObsInit EXCEPT !.op = "feed", !.arg = timestamp,
                                    !.pre = tl, !.ret = r.ret, !.ok = FALSE]
        /\ UNCHANGED notTl

Timeline_reset(timestamp) ==
    /\ tl' = reset(tl, timestamp)
    /\ tl_obs' = [TlObsInit EXCEPT !.op = "reset", !.arg = timestamp,
                                   !.pre = tl, !.last_t = timestamp]
    /\ UNCHANGED notTl

Timeline_forward(offset) ==
    /\ tl.local_tip < MaxTip
    /\ tl' = forward(TlW, tl, offset)
    /\ tl_obs' = [TlObsInit EXCEPT !.op = "forward", !.arg = offset,
                                   !.pre = tl, !.ok = FALSE]
    /\ UNCHANGED notTl

TimelineNext ==
    \/ \E t \in 0..(TlW - 1) : Timeline_feed_and_transform(t)
    \/ \E t \in 0..(TlW - 1) : Timeline_reset(t)
    \/ \E n \in 0..MaxForward : Timeline_forward(n)

(***************************************************************************)
(* RTCifier (src/sn2daemon/timeline.py)                                    *)
(*                                                                         *)
(* An RTCifier over a Timeline(TlW, TlSlack).  Times of the real-time      *)
(* clock are in microseconds; timedelta(milliseconds=n) is 1000 n of       *)
(* them.  __init__ does not set __rtcbase: aligned tells whether align     *)
(* has set it.                                                             *)
(***************************************************************************)

\* calls of align and of map_to_rtc in one behaviour
MaxRtAligns == 2
MaxMaps == 4
\* the real-time clock values given to align
RtcBases == {10999997, 1999999000}

\* RTCifier.__init__(timeline) with a fresh Timeline
RTCifier_init == [aligned |-> FALSE, rtcbase |-> 0, timeline |-> Timeline_init]

\* a slip: align keeps the epoch of the timeline
rtcifier_align_keep_epoch(r, rtc, timestamp) ==
    [aligned |-> TRUE, rtcbase |-> rtc,
     timeline |-> [r.timeline EXCEPT !.remote_tip = timestamp]]

\* RTCifier.align(rtc, timestamp)
rtcifier_align(r, rtc, timestamp) ==
    [aligned |-> TRUE, rtcbase |-> rtc,
     timeline |-> reset(r.timeline, timestamp)]

\* RTCifier.map_to_rtc(timestamp): the new state, the returned value and
\* whether reading __rtcbase raised AttributeError (nothing is fed then)
map_to_rtc(r, timestamp) ==
    IF ~r.aligned
    THEN [rt |-> r, ret |-> 0, raised |-> TRUE]
    ELSE LET f == feed_and_transform(TlW, TlSlack, r.timeline, timestamp)
         IN  [rt |-> [r EXCEPT !.timeline = f.tl],
              ret |-> r.rtcbase + 1000 * f.ret,
              raised |-> FALSE]

\* The observer: the last call (op, arg, value returned, state before),
\* the arguments of the last align (rtc, t0), and for the map_to_rtc calls
\* since that align: how many (n), the last timestamp fed, the sum of the
\* jumps (t_i - t_{i-1}) mod W from t0 on, whether every jump was
\* < W - slack (ok); the calls made in all; whether the timeline had
\* left its epoch when the last align was called (moved).
RtObsInit ==
    [op |-> "init", arg |-> 0, ret |-> 0, pre |-> RTCifier_init,
     rtc |-> 0, t0 |-> 0, n |-> 0, last_t |-> 0, sum |-> 0, ok |-> TRUE,
     wraps |-> 0, aligns |-> 0, maps |-> 0, raised |-> FALSE,
     moved |-> FALSE]

RTCifierInit ==
    /\ rt = RTCifier_init
    /\ rt_obs = RtObsInit

RTCifier_align(rtc, timestamp) ==
    /\ rt_obs.aligns < MaxRtAligns
    /\ rt' = rtcifier_align(rt, rtc, timestamp)
    /\ rt_obs' = [RtObsInit EXCEPT !.op = "align", !.arg = timestamp,
                                   !.pre = rt, !.rtc = rtc, !.t0 = timestamp,
                                   !.last_t = timestamp,
                                   !.aligns = rt_obs.aligns + 1,
                                   !.maps = rt_obs.maps,
                                   !.moved = rt.timeline.local_tip > 0]
    /\ UNCHANGED notRt

RTCifier_map_to_rtc(timestamp) ==
    LET m == map_to_rtc(rt, timestamp)
        jump == (timestamp - rt_obs.last_t) % TlW
    IN  /\ rt_obs.maps < MaxMaps
        /\ rt' = m.rt
        /\ rt_obs' =
             IF m.raised
             THEN [rt_obs EXCEPT !.op = "map", !.arg = timestamp,
                                 !.pre = rt, !.maps = @ + 1,
                                 !.raised = TRUE]
             ELSE [rt_obs EXCEPT !.op = "map", !.arg = timestamp,
                                 !.pre = rt, !.ret = m.ret,
                                 !.maps = @ + 1, !.n = @ + 1,
                                 !.last_t = timestamp,
                                 !.sum = @ + jump,
                                 !.ok = @ /\ jump < TlW - TlSlack,
                                 !.wraps = IF timestamp < rt_obs.last_t
                                           THEN @ + 1 ELSE @]
        /\ UNCHANGED notRt

RTCifierNext ==
    \/ \E rtc \in RtcBases : \E t \in 0..(TlW - 1) : RTCifier_align(rtc, t)
    \/ \E t \in 0..(TlW - 1) : RTCifier_map_to_rtc(t)

(***************************************************************************)
(* Stream decompressor (src/sn2daemon/sensor_stream.py, decompress)        *)
(***************************************************************************)

\* longest payload handed to decompress
MaxPayload == 12
\* the first BitmapPositions bytes of a payload range over BitmapBytes (both
\* sit where decompress reads bitmap bytes), the others over DataBytes
BitmapPositions == 2
BitmapBytes == {0, 165, 255}
DataBytes == {1, 255}
References == {-32768, -18, 0, 32767}

\* struct "<b" and "<h" (little-endian) read from bytes
int8(b) == IF b >= 128 THEN b - 256 ELSE b
int16le(lo, hi) == LET u == lo + 256 * hi IN IF u >= 32768 THEN u - 65536 ELSE u

\* (next_bitmap_part & (1 << i)) >> i
bit_of(next_bitmap_part, i) == (next_bitmap_part \div (2 ^ i)) % 2

\* a slip: every residual is taken to be one byte long
bit_cost_one(bit) == 1

\* the payload bytes a bitmap bit reserves: 1 when set, else 2
bit_cost(bit) == IF bit = 1 THEN 1 ELSE 2

\* The first loop of decompress: bitmap bytes are taken from the front of
\* the packet while remaining_payload_size > 0.  p is the number of bytes
\* taken so far, i the bit to look at (-1: take the next bitmap byte).
RECURSIVE read_bitmap(_, _, _, _, _, _)
read_bitmap(packet, p, remaining, bitmap, part, i) ==
    IF i < 0
    THEN IF remaining > 0
         THEN IF p >= Len(packet)
              THEN [status |-> "IndexError", p |-> p, bitmap |-> bitmap]
              ELSE read_bitmap(packet, p + 1, remaining - 1, bitmap,
                               packet[p + 1], 7)
         ELSE [status |-> "ok", p |-> p, bitmap |-> bitmap]
    ELSE LET bit == bit_of(part, i)
             rem == remaining - bit_cost(bit)
         IN  IF rem <= 0
             THEN IF rem < 0
                  THEN [status |-> "ValueError", p |-> p,
                        bitmap |-> Append(bitmap, bit)]
                  ELSE [status |-> "ok", p |-> p,
                        bitmap |-> Append(bitmap, bit)]
             ELSE read_bitmap(packet, p, rem, Append(bitmap, bit), part, i - 1)

\* The second loop: one residual per bitmap bit, read from the front of
\* what is left of the packet; then the assert that nothing is left.
RECURSIVE read_values(_, _, _, _, _)
read_values(average, packet, p, bitmap, values) ==
    IF bitmap = <<>>
    THEN [status |-> IF p = Len(packet) THEN "ok" ELSE "AssertionError",
          values |-> values, consumed |-> p]
    ELSE IF Head(bitmap) = 1
    THEN IF p + 1 > Len(packet)
         THEN [status |-> "struct.error", values |-> values, consumed |-> p]
         ELSE read_values(average, packet, p + 1, Tail(bitmap),
                          Append(values, int8(packet[p + 1]) + average))
    ELSE IF p + 2 > Len(packet)
         THEN [status |-> "struct.error", values |-> values, consumed |-> p]
         ELSE read_values(average, packet, p + 2, Tail(bitmap),
                          Append(values,
                                 int16le(packet[p + 1], packet[p + 2])
                                   + average))

\* decompress(average, packet): how it ends (status "ok": it returned
\* values), the bitmap it read, the number of bitmap bytes and the number
\* of payload bytes it consumed in all
decompress(average, packet) ==
    LET b == read_bitmap(packet, 0, Len(packet), <<>>, 0, -1)
    IN  IF b.status # "ok"
        THEN [status |-> b.status, values |-> <<average>>,
              bitmap |-> b.bitmap, bitmap_bytes |-> b.p, consumed |-> b.p]
        ELSE LET v == read_values(average, packet, b.p, b.bitmap, <<average>>)
             IN  [status |-> v.status, values |-> v.values,
                  bitmap |-> b.bitmap, bitmap_bytes |-> b.p,
                  consumed |-> v.consumed]

\* the payloads of length n the model hands to decompress
Payloads(n) ==
    IF n <= BitmapPositions
    THEN [1..n -> BitmapBytes]
    ELSE { h \o d : h \in [1..BitmapPositions -> BitmapBytes],
                    d \in [1..(n - BitmapPositions) -> DataBytes] }

\* decompress has not been called yet
CodecPending ==
    [status |-> "pending", values |-> <<>>, bitmap |-> <<>>,
     bitmap_bytes |-> 0, consumed |-> 0]

CodecIdle ==
    /\ codec_in = [average |-> 0, packet |-> <<>>]
    /\ codec_out = CodecPending

Codec_decompress ==
    /\ codec_out.status = "pending"
    /\ codec_out' = decompress(codec_in.average, codec_in.packet)
    /\ UNCHANGED codec_in
    /\ UNCHANGED notCodec

(***************************************************************************)
(* ControlProtocol (src/sn2daemon/control_protocol.py)                     *)
(*                                                                         *)
(* A datagram is a sequence: the message type, then bytes.  A future is    *)
(* [key, state, result, callback, timer]: state is "pending", "result"     *)
(* (set_result), "exception" (set_exception(TimeoutError)) or "cancelled"; *)
(* callback tells whether its done callback (_fut_done) is scheduled and   *)
(* has not run yet; timer whether its call_later timer is still to fire;   *)
(* request is the packet that was sent for it.                             *)
(* waiters is the dict key -> future (its index in futs).                  *)
(***************************************************************************)

\* requests made in one run
MaxRequests == 2
\* the msg_ids rng.getrandbits(32) yields in the model
MsgIds == {2, 258}
\* a msg_id no request uses
UnknownMsgId == 7

\* struct ">L": the four bytes of a 32 bit number, most significant first
be32(n) ==
    <<(n \div 16777216) % 256, (n \div 65536) % 256,
      (n \div 256) % 256, n % 256>>

\* SetupPacket.pack(MsgType.SETUP.value, msg_id, 0, dest_addr, sntp_addr);
\* the two address fields are left out of the model
SetupPacket_pack(type, msg_id, version) == <<type>> \o be32(msg_id) \o <<version>>

\* a slip: the key leaves out the upper bytes of the msg_id
first5_low(buf) ==
    IF Len(buf) < 5 THEN buf ELSE <<buf[1], 0, 0, 0, buf[5]>>

\* buf[:5]
first5(buf) == IF Len(buf) < 5 THEN buf ELSE SubSeq(buf, 1, 5)

\* self.__waiters as a set of [key, fut]; at most one entry per key
waiters_has(w, key) == \E e \in w : e.key = key
waiters_get(w, key) == (CHOOSE e \in w : e.key = key).fut
waiters_pop(w, key) == { e \in w : e.key # key }
waiters_set(w, key, fut) == waiters_pop(w, key) \cup {[key |-> key, fut |-> fut]}

\* a future is done (asyncio.Future.done)
fut_done(f) == f.state # "pending"

\* ControlProtocol.__init__
ControlProtocol_init == [connected |-> FALSE, waiters |-> {}, futs |-> <<>>]

\* the observer: the last call and the datagram or key it was given
CpObsInit == [op |-> "init", buf |-> <<>>]

ControlProtocolInit ==
    /\ cp = ControlProtocol_init
    /\ cp_obs = CpObsInit

\* ControlProtocol.connection_made
ControlProtocol_connection_made ==
    /\ ~cp.connected
    /\ cp' = [cp EXCEPT !.connected = TRUE]
    /\ cp_obs' = [op |-> "connection_made", buf |-> <<>>]
    /\ UNCHANGED notCp

\* ControlProtocol._make_fut(key, timeout): the protocol with the new
\* future registered under key, its done callback added, its timer armed
make_fut(c, key) ==
    [c EXCEPT !.futs = Append(@, [key |-> key, state |-> "pending",
                                  result |-> <<>>, callback |-> FALSE,
                                  request |-> <<>>,
                                  timer |-> TRUE]),
              !.waiters = waiters_set(@, key, Len(c.futs) + 1)]

\* ControlProtocol.detect / ControlProtocol.configure up to the await: both
\* pack a SETUP packet with a fresh msg_id, register the future under the
\* first five bytes of the packet and send the packet
ControlProtocol_request(msg_id) ==
    /\ cp.connected
    /\ Len(cp.futs) < MaxRequests
    /\ LET pkt == SetupPacket_pack("SETUP", msg_id, 0)
       IN  /\ cp' = [make_fut(cp, first5(pkt))
                       EXCEPT !.futs[Len(cp.futs) + 1].request = pkt]
           /\ cp_obs' = [op |-> "request", buf |-> pkt]
           /\ UNCHANGED notCp

\* ControlProtocol.datagram_received(buf, addr)
datagram_received(c, buf) ==
    LET header == first5(buf)
    IN  IF Len(header) < 5
        THEN c
        ELSE IF ~waiters_has(c.waiters, header)
        THEN c
        ELSE LET i == waiters_get(c.waiters, header)
                 popped == [c EXCEPT !.waiters = waiters_pop(@, header)]
             IN  IF fut_done(c.futs[i])
                 THEN popped
                 ELSE [popped EXCEPT !.futs[i].state = "result",
                                     !.futs[i].result = buf,
                                     !.futs[i].callback = TRUE]

ControlProtocol_datagram_received(buf) ==
    /\ cp.connected
    /\ cp' = datagram_received(cp, buf)
    /\ cp_obs' = [op |-> "datagram", buf |-> buf]
    /\ UNCHANGED notCp

\* ControlProtocol._timeout(key), called by the timer of future i.  A
\* future found under the key that is already done makes set_exception
\* raise InvalidStateError.
timeout(c, key) ==
    IF ~waiters_has(c.waiters, key)
    THEN c
    ELSE LET j == waiters_get(c.waiters, key)
             popped == [c EXCEPT !.waiters = waiters_pop(@, key)]
         IN  IF fut_done(c.futs[j])
             THEN popped
             ELSE [popped EXCEPT !.futs[j].state = "exception",
                                 !.futs[j].callback = TRUE]

ControlProtocol_timeout(i) ==
    /\ i \in 1..Len(cp.futs)
    /\ cp.futs[i].timer
    /\ LET fired == [cp EXCEPT !.futs[i].timer = FALSE]
           key == cp.futs[i].key
       IN  /\ cp' = timeout(fired, key)
           /\ cp_obs' = [op |-> "timeout", buf |-> key]
           /\ UNCHANGED notCp

\* ControlProtocol._fut_done(key, fut), the done callback of future i
fut_done_callback(c, i) ==
    LET key == c.futs[i].key
    IN  IF ~waiters_has(c.waiters, key)
        THEN c
        ELSE IF waiters_get(c.waiters, key) # i
        THEN c
        ELSE [c EXCEPT !.waiters = waiters_pop(@, key)]

ControlProtocol_fut_done(i) ==
    /\ i \in 1..Len(cp.futs)
    /\ cp.futs[i].callback
    /\ cp' = [fut_done_callback(cp, i) EXCEPT !.futs[i].callback = FALSE]
    /\ cp_obs' = [op |-> "fut_done", buf |-> cp.futs[i].key]
    /\ UNCHANGED notCp

\* the task awaiting future i is cancelled, which cancels the future
ControlProtocol_cancel(i) ==
    /\ i \in 1..Len(cp.futs)
    /\ ~fut_done(cp.futs[i])
    /\ cp' = [cp EXCEPT !.futs[i].state = "cancelled",
                        !.futs[i].callback = TRUE]
    /\ cp_obs' = [op |-> "cancel", buf |-> cp.futs[i].key]
    /\ UNCHANGED notCp

\* the datagrams that arrive: the SETUP response to every msg_id in use
\* and to one not in use, the same cut to its first 5 and first 4 bytes,
\* and a PONG that carries a msg_id in use
Datagrams ==
    LET full == { SetupPacket_pack("SETUP", m, 1) :
                    m \in MsgIds \cup {UnknownMsgId} }
        one == SetupPacket_pack("SETUP", CHOOSE m \in MsgIds : TRUE, 1)
    IN  full \cup {SubSeq(one, 1, 5), SubSeq(one, 1, 4)}
             \cup {SetupPacket_pack("PONG", CHOOSE m \in MsgIds : TRUE, 1)}

ControlNext ==
    \/ ControlProtocol_connection_made
    \/ \E m \in MsgIds : ControlProtocol_request(m)
    \/ \E d \in Datagrams : ControlProtocol_datagram_received(d)
    \/ \E i \in 1..MaxRequests : ControlProtocol_timeout(i)
    \/ \E i \in 1..MaxRequests : ControlProtocol_fut_done(i)
    \/ \E i \in 1..MaxRequests : ControlProtocol_cancel(i)

(***************************************************************************)
(* SensorNode2Daemon.run (src/sn2daemon/daemon.py): the detect and         *)
(* reconfigure loop over its ControlProtocol                               *)
(*                                                                         *)
(* run is [pc, cp, cur, exc, detects]: pc is the position of the           *)
(* coroutine ("start" before the endpoints exist, "detect" at the top of   *)
(* the loop, "await_detect" / "await_configure" inside the await of        *)
(* ControlProtocol.detect / configure, "sleep" inside asyncio.sleep,       *)
(* "terminated" once an exception has left run); cp is its                 *)
(* ControlProtocol, cur the future awaited, exc the exception that ended   *)
(* run.  A response carries one more field than the packets above: the     *)
(* destination address the node is configured with.                        *)
(***************************************************************************)

\* detect attempts in one behaviour
MaxDetects == 4
\* net.local_address of the configuration, and another address
LocalAddress == 1
OtherAddress == 2
\* the length SetupPacket.unpack requires (38 bytes; in the model the
\* type, the msg_id, the version and one address)
SetupPacketSize == 7

Run_init == [pc |-> "start", cp |-> ControlProtocol_init, cur |-> 0,
             exc |-> None, detects |-> 0]

RunInit == run = Run_init

\* the rest of ControlProtocol.detect once the future has its result:
\* SetupPacket.unpack(response), then
\* return addr[0], (dest_addr, sntp_addr)
detect_return(response) ==
    IF Len(response) # SetupPacketSize
    THEN [status |-> "struct.error", value |-> <<>>]
    ELSE [status |-> "ok",
          value |-> <<"addr", <<response[7], "sntp_addr">>>>]

\* _detect_and_configure after detect returned value:
\* remote_addr, (dest_addr, sntp_addr), rtt = value, then the comparison
\* with local_address (sntp_server is None).  What it does next.
detect_and_configure(value) ==
    IF Len(value) # 3
    THEN "ValueError"
    ELSE IF value[2][1] # LocalAddress THEN "configure" ELSE "return"

\* run up to the loop: both endpoints are created, the ControlProtocol
\* gets its transport
Run_enter ==
    /\ run.pc = "start"
    /\ run' = [run EXCEPT !.pc = "detect", !.cp.connected = TRUE]
    /\ UNCHANGED notRun

\* the top of the loop: _detect_and_configure calls detect, which
\* registers a future for a fresh msg_id, sends the packet and awaits
Run_detect(msg_id) ==
    /\ run.pc = "detect"
    /\ run.detects < MaxDetects
    /\ LET pkt == SetupPacket_pack("SETUP", msg_id, 0)
           c == [make_fut(run.cp, first5(pkt))
                   EXCEPT !.futs[Len(run.cp.futs) + 1].request = pkt]
       IN  run' = [run EXCEPT !.pc = "await_detect", !.cp = c,
                              !.cur = Len(c.futs),
                              !.detects = @ + 1]
    /\ UNCHANGED notRun

\* a datagram arrives at the ControlProtocol
Run_datagram_received(buf) ==
    /\ run.pc \notin {"start", "terminated"}
    /\ run.cp # datagram_received(run.cp, buf)
    /\ run' = [run EXCEPT !.cp = datagram_received(run.cp, buf)]
    /\ UNCHANGED notRun

\* the call_later timer of future i fires
Run_timeout(i) ==
    /\ i \in 1..Len(run.cp.futs)
    /\ run.cp.futs[i].timer
    /\ LET fired == [run.cp EXCEPT !.futs[i].timer = FALSE]
       IN  run' = [run EXCEPT !.cp = timeout(fired, run.cp.futs[i].key)]
    /\ UNCHANGED notRun

\* the done callback of future i runs
Run_fut_done(i) ==
    /\ i \in 1..Len(run.cp.futs)
    /\ run.cp.futs[i].callback
    /\ run' = [run EXCEPT
                 !.cp = [fut_done_callback(run.cp, i)
                           EXCEPT !.futs[i].callback = FALSE]]
    /\ UNCHANGED notRun

\* the future awaited is done and the coroutine goes on: up to the next
\* await (the sleep, or the await inside configure, which draws msg_id)
\* or out of run
Run_resume(msg_id) ==
    /\ run.pc \in {"await_detect", "await_configure"}
    /\ fut_done(run.cp.futs[run.cur])
    /\ LET f == run.cp.futs[run.cur]
           d == detect_return(f.result)
           todo == detect_and_configure(d.value)
       IN  IF f.state = "exception"
           THEN \* except TimeoutError: log; then asyncio.sleep(interval)
                run' = [run EXCEPT !.pc = "sleep"]
           ELSE IF run.pc = "await_configure"
           THEN run' = [run EXCEPT !.pc = "sleep"]
           ELSE IF d.status # "ok"
           THEN run' = [run EXCEPT !.pc = "terminated", !.exc = d.status]
           ELSE IF todo = "ValueError"
           THEN run' = [run EXCEPT !.pc = "terminated", !.exc = todo]
           ELSE IF todo = "return"
           THEN run' = [run EXCEPT !.pc = "sleep"]
           ELSE LET pkt == SetupPacket_pack("SETUP", msg_id, 0)
                    c == [make_fut(run.cp, first5(pkt))
                            EXCEPT !.futs[Len(run.cp.futs) + 1].request = pkt]
                IN  run' = [run EXCEPT !.pc = "await_configure", !.cp = c,
                                       !.cur = Len(c.futs)]
    /\ UNCHANGED notRun

\* asyncio.sleep(interval) is over
Run_sleep_done ==
    /\ run.pc = "sleep"
    /\ run' = [run EXCEPT !.pc = "detect"]
    /\ UNCHANGED notRun

\* the datagrams that arrive: the response to a msg_id in use from a node
\* that is configured with the local address and from one that is not, a
\* response cut behind its header, and a response to no request
RunDatagrams ==
    { SetupPacket_pack("SETUP", m, 1) \o <<a>> :
        m \in MsgIds \cup {UnknownMsgId},
        a \in {LocalAddress, OtherAddress} }
      \cup { first5(SetupPacket_pack("SETUP", m, 1)) : m \in MsgIds }

RunNext ==
    \/ Run_enter
    \/ \E m \in MsgIds : Run_detect(m)
    \/ \E d \in RunDatagrams : Run_datagram_received(d)
    \/ \E i \in 1..MaxDetects : Run_timeout(i)
    \/ \E i \in 1..MaxDetects : Run_fut_done(i)
    \/ \E m \in MsgIds : Run_resume(m)
    \/ Run_sleep_done

\* the event loop runs every callback, timer and task that is ready; that
\* a datagram arrives is up to the network
RunFairness ==
    /\ WF_vars(Run_enter)
    /\ WF_vars(\E m \in MsgIds : Run_detect(m))
    /\ WF_vars(\E i \in 1..MaxDetects : Run_timeout(i))
    /\ WF_vars(\E i \in 1..MaxDetects : Run_fut_done(i))
    /\ WF_vars(\E m \in MsgIds : Run_resume(m))
    /\ WF_vars(Run_sleep_done)

(***************************************************************************)
(* SensorNode2Protocol (src/sn2daemon/protocol.py)                         *)
(*                                                                         *)
(* The byte stream is a sequence of frames: a two-byte little-endian       *)
(* length, then that many payload bytes whose first byte is the message    *)
(* type.  Of the message classes only SensorStreamMessage is decoded here. *)
(***************************************************************************)

\* frames the peer sends in one behaviour
MaxFrames == 3

\* MsgType: the values of the message types
MsgType_STATUS == 130
MsgType_SENSOR_STREAM_ACCEL_X == 248
MsgType_SENSOR_STREAM_COMPASS_Z == 253
MsgType_SENSOR_STREAM ==
    MsgType_SENSOR_STREAM_ACCEL_X..MsgType_SENSOR_STREAM_COMPASS_Z
MsgType == {MsgType_STATUS, 241, 242, 244, 245} \cup MsgType_SENSOR_STREAM

\* struct "<H" read from two bytes
uint16le(lo, hi) == lo + 256 * hi

\* SensorStreamMessage.from_buf(type_, buf): the "<HH" header (seq,
\* reference), then decompress(reference, rest)
SensorStreamMessage_from_buf(type_, buf) ==
    IF Len(buf) < 4
    THEN [status |-> "struct.error", msg |-> <<>>]
    ELSE LET seq == uint16le(buf[1], buf[2])
             reference == uint16le(buf[3], buf[4])
             d == decompress(reference, SubSeq(buf, 5, Len(buf)))
         IN  IF d.status = "ok"
             THEN [status |-> "ok",
                   msg |-> [type_ |-> type_, seq |-> seq, data |-> d.values]]
             ELSE [status |-> d.status, msg |-> <<>>]

\* decode_message(buf): how it ends and, with status "ok", the message.
\* The classes other than SensorStreamMessage are left out ("unmodelled");
\* no frame of the model carries their types.
decode_message(buf) ==
    IF buf = <<>>
    THEN [status |-> "IndexError", msg |-> <<>>]
    ELSE IF buf[1] \notin MsgType
    THEN [status |-> "ValueError", msg |-> <<>>]
    ELSE IF buf[1] \in MsgType_SENSOR_STREAM
    THEN SensorStreamMessage_from_buf(buf[1], Tail(buf))
    ELSE [status |-> "unmodelled", msg |-> <<>>]

\* SensorNode2Protocol.__init__  (_length None is written -1)
SensorNode2Protocol_init ==
    [buffer |-> <<>>, length |-> -1, state |-> "LENGTH"]

SnpObsInit == [sent |-> <<>>, received |-> <<>>, raised |-> FALSE]

SensorNode2ProtocolInit ==
    /\ snp = SensorNode2Protocol_init
    /\ snp_net = <<>>
    /\ snp_obs = SnpObsInit

\* One call of _process on s: the state after it, whether it returned True
\* (progress), the message it handed to on_message_received (if any) and
\* whether it raised.  `type_ = view[0]` stands outside the try: with
\* _length = 0 it raises IndexError before anything is consumed.
process(s) ==
    IF s.state = "LENGTH"
    THEN IF Len(s.buffer) < 2
         THEN [s |-> s, progress |-> FALSE, out |-> <<>>, raised |-> FALSE]
         ELSE [s |-> [buffer |-> SubSeq(s.buffer, 3, Len(s.buffer)),
                      length |-> uint16le(s.buffer[1], s.buffer[2]),
                      state |-> "PAYLOAD"],
               progress |-> TRUE, out |-> <<>>, raised |-> FALSE]
    ELSE IF Len(s.buffer) < s.length
         THEN [s |-> s, progress |-> FALSE, out |-> <<>>, raised |-> FALSE]
         ELSE LET view == SubSeq(s.buffer, 1, s.length)
              IN  IF view = <<>>
                  THEN [s |-> s, progress |-> FALSE, out |-> <<>>,
                        raised |-> TRUE]
                  ELSE LET obj == decode_message(view)
                       IN  [s |-> [buffer |-> SubSeq(s.buffer, s.length + 1,
                                                     Len(s.buffer)),
                                   length |-> s.length,
                                   state |-> "LENGTH"],
                            progress |-> TRUE,
                            out |-> IF obj.status = "ok"
                                    THEN <<obj.msg>> ELSE <<>>,
                            raised |-> FALSE]

\* while self._process(): pass
RECURSIVE process_loop(_, _)
process_loop(s, out) ==
    LET r == process(s)
    IN  IF r.progress
        THEN process_loop(r.s, out \o r.out)
        ELSE [s |-> r.s, out |-> out \o r.out, raised |-> r.raised]

\* data_received(buf): _push, then the _process loop
data_received_stream(s, buf) ==
    process_loop([s EXCEPT !.buffer = s.buffer \o buf], <<>>)

\* the payloads of the frames the peer sends
GoodFrameShort == <<MsgType_SENSOR_STREAM_ACCEL_X, 1, 0, 10, 0>>
GoodFrameLong == <<MsgType_SENSOR_STREAM_COMPASS_Z, 2, 0, 10, 0, 128, 5>>
UnknownTagFrame == <<7, 1, 0, 10, 0>>
TruncatedFrame == <<MsgType_SENSOR_STREAM_ACCEL_X, 1>>
MalformedFrame == <<MsgType_SENSOR_STREAM_ACCEL_X, 1, 0, 10, 0, 0, 1>>
EmptyFrame == <<>>
\* seq 123, reference field ee ff (0xffee), no bitmap
HighReferenceFrame == <<MsgType_SENSOR_STREAM_ACCEL_X, 123, 0, 238, 255>>
Frames ==
    {GoodFrameShort, GoodFrameLong, UnknownTagFrame, TruncatedFrame,
     MalformedFrame, EmptyFrame, HighReferenceFrame}

\* a frame on the wire: the length, little-endian, then the payload
wire(payload) == <<Len(payload) % 256, Len(payload) \div 256>> \o payload

\* the peer writes one more frame to the connection
Peer_send(payload) ==
    /\ Len(snp_obs.sent) < MaxFrames
    /\ snp_net' = snp_net \o wire(payload)
    /\ snp_obs' = [snp_obs EXCEPT !.sent = Append(@, payload)]
    /\ UNCHANGED snp
    /\ UNCHANGED notSnp

\* the transport hands the next n bytes to data_received
SensorNode2Protocol_data_received(n) ==
    /\ n \in 1..Len(snp_net)
    /\ LET r == data_received_stream(snp, SubSeq(snp_net, 1, n))
       IN  /\ snp' = r.s
           /\ snp_obs' = [snp_obs EXCEPT
                             !.received = @ \o r.out,
                             !.raised = @ \/ r.raised]
    /\ snp_net' = SubSeq(snp_net, n + 1, Len(snp_net))
    /\ UNCHANGED notSnp

ProtocolNext ==
    \/ \E payload \in Frames : Peer_send(payload)
    \/ \E n \in 1..(MaxFrames * 9) : SensorNode2Protocol_data_received(n)

(***************************************************************************)
(* StatusMessage (src/sn2daemon/protocol.py)                               *)
(*                                                                         *)
(* from_buf decodes the payload of a STATUS frame (the bytes after the     *)
(* type byte).  Its result is written [status, attr, <values>, sections]:  *)
(* attr tells of every attribute whether reading it gives None (the class  *)
(* default), a decoded value ("set") or raises AttributeError (no class    *)
(* default and never assigned); sections lists the sections in the order   *)
(* they were decoded.  unpack_and_splice(buf, struct) of hintlib unpacks   *)
(* the first struct.size bytes and returns the rest; with fewer bytes      *)
(* struct.unpack raises struct.error.                                      *)
(***************************************************************************)

\* if status_version > 6: raise ValueError
MaxStatusVersion == 6
\* the task counts and extra lengths of the payloads of the model
MaxTaskCount == 2
MaxExcess == 1

\* struct "<L" read from four bytes
uint32le(b1, b2, b3, b4) == b1 + 256 * b2 + 65536 * b3 + 16777216 * b4

\* buf without its first size bytes
splice(buf, size) == SubSeq(buf, size + 1, Len(buf))

\* n values of struct "<H" read from the first 2n bytes of buf
RECURSIVE unpack_H(_, _)
unpack_H(buf, n) ==
    IF n = 0 THEN <<>>
    ELSE <<uint16le(buf[1], buf[2])>> \o unpack_H(splice(buf, 2), n - 1)

\* BME280Metrics(): the class defaults
BME280Metrics_new == [configure_status |-> 255, timeouts |-> 0]

\* a slip: the short form keeps the default configure_status
BME280Metrics_unpack_keep_default(version, buf) ==
    IF version < 3
    THEN IF Len(buf) < 2
         THEN [status |-> "struct.error", buf |-> buf,
               result |-> BME280Metrics_new]
         ELSE [status |-> "ok", buf |-> splice(buf, 2),
               result |-> [BME280Metrics_new
                             EXCEPT !.timeouts = uint16le(buf[1], buf[2])]]
    ELSE IF Len(buf) < 3
         THEN [status |-> "struct.error", buf |-> buf,
               result |-> BME280Metrics_new]
         ELSE [status |-> "ok", buf |-> splice(buf, 3),
               result |-> [configure_status |-> buf[1],
                           timeouts |-> uint16le(buf[2], buf[3])]]

\* StatusMessage.BME280Metrics.unpack_and_splice(version, buf)
BME280Metrics_unpack_and_splice(version, buf) ==
    IF version < 3
    THEN IF Len(buf) < 2
         THEN [status |-> "struct.error", buf |-> buf,
               result |-> BME280Metrics_new]
         ELSE [status |-> "ok", buf |-> splice(buf, 2),
               result |-> [configure_status |-> 0,
                           timeouts |-> uint16le(buf[1], buf[2])]]
    ELSE IF Len(buf) < 3
         THEN [status |-> "struct.error", buf |-> buf,
               result |-> BME280Metrics_new]
         ELSE [status |-> "ok", buf |-> splice(buf, 3),
               result |-> [configure_status |-> buf[1],
                           timeouts |-> uint16le(buf[2], buf[3])]]

\* every attribute from_buf may assign, and those the class body declares
StatusAttrs ==
    {"rtc", "uptime", "v1_accel_stream_state", "v1_compass_stream_state",
     "v2_i2c_metrics", "v2_bme280_metrics", "v4_bme280_metrics",
     "v5_tx_metrics", "v5_task_metrics", "v6_cpu_metrics"}
StatusClassAttrs ==
    {"rtc", "uptime", "v1_accel_stream_state", "v1_compass_stream_state",
     "v2_i2c_metrics", "v5_tx_metrics", "v5_task_metrics", "v6_cpu_metrics"}

\* result = cls(): every attribute as the class leaves it
StatusMessage_new ==
    [status |-> "ok", buf |-> <<>>, type_ |-> None,
     attr |-> [a \in StatusAttrs |->
                 IF a \in StatusClassAttrs THEN "None" ELSE "AttributeError"],
     rtc |-> 0, uptime |-> 0,
     v1_accel_stream_state |-> <<>>, v1_compass_stream_state |-> <<>>,
     v2_i2c_metrics |-> <<>>, v2_bme280_metrics |-> BME280Metrics_new,
     v4_bme280_metrics |-> <<>>, v5_tx_metrics |-> <<>>,
     v5_task_metrics |-> [idle_ticks |-> 0, tasks |-> <<>>],
     v6_cpu_metrics |-> <<>>, sections |-> <<>>]

StatusPending == [StatusMessage_new EXCEPT !.status = "pending"]

\* the outcome of from_buf when it raises exc
StatusRaised(r, exc) == [r EXCEPT !.status = exc]

\* buf, result.<name> = IMUStreamState.unpack_and_splice(version, buf):
\* "<HHH", the period a timedelta of that many milliseconds (here in us)
read_IMUStreamState(r, name) ==
    IF r.status # "ok" THEN r
    ELSE IF Len(r.buf) < 6 THEN StatusRaised(r, "struct.error")
    ELSE LET d == unpack_H(r.buf, 3)
         IN  [r EXCEPT !.buf = splice(r.buf, 6),
                       ![name] = <<d[1], d[2], 1000 * d[3]>>,
                       !.attr[name] = "set",
                       !.sections = Append(@, "imu")]

\* one turn of the loop over the two I2C buses: "<H"
read_I2CMetrics(r) ==
    IF r.status # "ok" THEN r
    ELSE IF Len(r.buf) < 2 THEN StatusRaised(r, "struct.error")
    ELSE [r EXCEPT !.buf = splice(r.buf, 2),
                   !.v2_i2c_metrics =
                       Append(@, [transaction_overruns |->
                                    uint16le(r.buf[1], r.buf[2])]),
                   !.attr["v2_i2c_metrics"] = "set",
                   !.sections = Append(@, "i2c")]

\* the BME280 branch of from_buf
read_BME280Metrics(version, r) ==
    IF r.status # "ok" THEN r
    ELSE LET m0 == BME280Metrics_unpack_and_splice(version, r.buf)
             m1 == BME280Metrics_unpack_and_splice(version, m0.buf)
         IN  IF m0.status # "ok" THEN StatusRaised(r, m0.status)
             ELSE IF version >= 4
             THEN IF m1.status # "ok" THEN StatusRaised(r, m1.status)
                  ELSE [r EXCEPT
                          !.buf = m1.buf,
                          !.v4_bme280_metrics = <<m0.result, m1.result>>,
                          !.v2_bme280_metrics = m0.result,
                          !.attr["v4_bme280_metrics"] = "set",
                          !.attr["v2_bme280_metrics"] = "set",
                          !.sections = @ \o <<"bme280", "bme280">>]
             ELSE [r EXCEPT
                     !.buf = m0.buf,
                     !.v2_bme280_metrics = m0.result,
                     !.v4_bme280_metrics = <<m0.result, BME280Metrics_new>>,
                     !.attr["v4_bme280_metrics"] = "set",
                     !.attr["v2_bme280_metrics"] = "set",
                     !.sections = Append(@, "bme280")]

\* TXMetrics.unpack_and_splice: "<HHHH"
read_TXMetrics(r) ==
    IF r.status # "ok" THEN r
    ELSE IF Len(r.buf) < 8 THEN StatusRaised(r, "struct.error")
    ELSE [r EXCEPT !.buf = splice(r.buf, 8),
                   !.v5_tx_metrics = unpack_H(r.buf, 4),
                   !.attr["v5_tx_metrics"] = "set",
                   !.sections = Append(@, "tx")]

\* TasksMetrics.unpack_and_splice: "<BH" (count, idle_ticks), then count
\* times "<H"
read_TasksMetrics(r) ==
    IF r.status # "ok" THEN r
    ELSE IF Len(r.buf) < 3 THEN StatusRaised(r, "struct.error")
    ELSE LET count == r.buf[1]
             idle_ticks == uint16le(r.buf[2], r.buf[3])
             body == splice(r.buf, 3)
         IN  IF Len(body) < 2 * count THEN StatusRaised(r, "struct.error")
             ELSE [r EXCEPT
                     !.buf = splice(body, 2 * count),
                     !.v5_task_metrics = [idle_ticks |-> idle_ticks,
                                          tasks |-> unpack_H(body, count)],
                     !.attr["v5_task_metrics"] = "set",
                     !.sections = Append(@, "tasks")]

\* CPUMetrics.unpack_and_splice: "<" + "H" * 0x20.  The split of the 32
\* counters into idle, sched, interrupts and tasks goes by indices of the
\* firmware header and is left out.
read_CPUMetrics(r) ==
    IF r.status # "ok" THEN r
    ELSE IF Len(r.buf) < 64 THEN StatusRaised(r, "struct.error")
    ELSE [r EXCEPT !.buf = splice(r.buf, 64),
                   !.v6_cpu_metrics = unpack_H(r.buf, 32),
                   !.attr["v6_cpu_metrics"] = "set",
                   !.sections = Append(@, "cpu")]

\* StatusMessage.from_buf(type_, buf)
StatusMessage_from_buf(type_, buf) ==
    IF Len(buf) < 8 THEN StatusRaised(StatusMessage_new, "struct.error")
    ELSE
    LET rtc == uint32le(buf[1], buf[2], buf[3], buf[4])
        uptime == uint16le(buf[5], buf[6])
        protocol_version == buf[7]
        status_version == buf[8]
        r0 == [StatusMessage_new EXCEPT !.type_ = type_,
                                        !.buf = splice(buf, 8),
                                        !.rtc = rtc, !.uptime = uptime,
                                        !.attr["rtc"] = "set",
                                        !.attr["uptime"] = "set"]
        r1 == IF 1 <= status_version
              THEN read_IMUStreamState(
                       read_IMUStreamState(r0, "v1_accel_stream_state"),
                       "v1_compass_stream_state")
              ELSE r0
        r2 == IF 2 <= status_version
              THEN read_BME280Metrics(status_version,
                       read_I2CMetrics(read_I2CMetrics(r1)))
              ELSE r1
        r3 == IF 5 <= status_version THEN read_TXMetrics(r2) ELSE r2
        r4 == IF 5 <= status_version /\ status_version < 6
              THEN read_TasksMetrics(r3) ELSE r3
        r5 == IF 6 <= status_version THEN read_CPUMetrics(r4) ELSE r4
    IN  IF protocol_version # 1
        THEN StatusRaised(StatusMessage_new, "ValueError")
        ELSE IF status_version > MaxStatusVersion
        THEN StatusRaised(StatusMessage_new, "ValueError")
        ELSE r5

StatusMessageInit == sm = [in |-> <<>>, out |-> StatusPending]

\* --- the payloads from_buf is given ---

\* n bytes that differ from their neighbours
Fill(n, seed) == [i \in 1..n |-> (seed + 7 * i) % 256]

\* the bytes of two BME280 records: (0x12, 20) and (0x34, 1204), and
\* (0xff, 20) and (0, 0)
BmeBytes == {<<18, 20, 0, 52, 180, 4>>, <<255, 20, 0, 0, 0, 0>>}

\* the bytes after the base header: what is in front of the BME280
\* metrics, BME280 bytes, what a version 5 status reads as TX metrics, a
\* byte it reads as the task count, and more
StatusBody(seed, bme, count) ==
    Fill(16, seed) \o bme \o Fill(8, seed + 1) \o <<count>>
        \o Fill(72, seed + 2)

\* the length of the body of a status of the version with count tasks
StatusBodyLen(version, count) ==
    CASE version = 0 -> 0
      [] version = 1 -> 12
      [] version = 2 -> 18
      [] version = 3 -> 19
      [] version = 4 -> 22
      [] version = 5 -> 33 + 2 * count
      [] version = 6 -> 94
      [] OTHER -> 22

\* rtc 12345678, uptime 12345, then the two version bytes
StatusHeader(protocol_version, status_version) ==
    <<78, 97, 188, 0, 57, 48, protocol_version, status_version>>

StatusPayloads ==
    { LET n == StatusBodyLen(v, count) + excess
      IN  StatusHeader(p, v)
            \o SubSeq(StatusBody(seed, bme, count), 1, IF n < 0 THEN 0 ELSE n) :
        p \in 0..2, v \in 0..(MaxStatusVersion + 1), seed \in {3, 200},
        bme \in BmeBytes, count \in {0, MaxTaskCount},
        excess \in -1..MaxExcess }
      \cup {SubSeq(StatusHeader(1, 4), 1, 7)}

\* decode_message hands the payload of a STATUS frame to from_buf
StatusMessage_from_buf_call(buf) ==
    /\ sm.out.status = "pending"
    /\ sm' = [in |-> buf, out |-> StatusMessage_from_buf("STATUS", buf)]
    /\ UNCHANGED notSm

StatusNext == \E buf \in StatusPayloads : StatusMessage_from_buf_call(buf)

(***************************************************************************)
(* Ingestor gate (src/sn2daemon/daemon.py, _on_message)                    *)
(*                                                                         *)
(* A message is [id, type_, retardation, samples]: id is its arrival       *)
(* number, retardation how far the rtc of a STATUS is behind the clock,    *)
(* samples what get_samples yields.                                        *)
(***************************************************************************)

\* messages that arrive in one behaviour
MaxMessages == 5

\* a sample is [timestamp, sensor, value], its sensor a path [part,
\* subpart]; sensor.replace(subpart=None) is the bare path
bare_path_of(sensor) == [sensor EXCEPT !.subpart = None]

\* batch_samples(samples): consecutive samples of one timestamp and one
\* bare path form a batch (timestamp, bare_path, {subpart: value}); a
\* subpart that is already in the current batch raises RuntimeError.
\* curr_ts is curr_batch_ts (0: None), curr_path curr_batch_bare_path,
\* curr the items of curr_batch_samples in the order they were set, out
\* the batches yielded so far.
RECURSIVE batch_samples_from(_, _, _, _, _)
batch_samples_from(samples, curr_ts, curr_path, curr, out) ==
    LET flush == IF curr # <<>>
                 THEN Append(out, [timestamp |-> curr_ts,
                                   bare_path |-> curr_path,
                                   samples |-> curr])
                 ELSE out
    IN  IF samples = <<>>
        THEN [status |-> "ok", batches |-> flush]
        ELSE LET smp == Head(samples)
                 new == curr_ts # smp.timestamp
                          \/ curr_path # bare_path_of(smp.sensor)
                 o1 == IF new THEN flush ELSE out
                 c1 == IF new THEN <<>> ELSE curr
             IN  IF \E i \in 1..Len(c1) : c1[i].subpart = smp.sensor.subpart
                 THEN [status |-> "RuntimeError", batches |-> o1]
                 ELSE batch_samples_from(
                          Tail(samples),
                          smp.timestamp,
                          bare_path_of(smp.sensor),
                          Append(c1, [subpart |-> smp.sensor.subpart,
                                      value |-> smp.value]),
                          o1)

\* the bare path before the first sample (curr_batch_bare_path = None)
NoPath == [part |-> None, subpart |-> None]

batch_samples(samples) == batch_samples_from(samples, 0, NoPath, <<>>, <<>>)

\* _process_non_status_message(obj) on Ingestor state s: the id of obj
\* when it was enqueued to the sample queue or submitted to its stream
\* buffer, whether the call raised, and the calls of Buffer.submit and of
\* RTCifier.map_to_rtc it made on an object that was never aligned.  The
\* batches are built (list(map(...))) before anything is enqueued;
\* rtcify_samples maps the timestamp of every sample.  Buffer.submit with
\* samples writes the header, whose t0 is __alignment_t0 + __period * seq:
\* both are None before the first align (TypeError).  A STATUS has no
\* get_samples and is no stream message.
process_non_status_message(s, obj) ==
    IF obj.type_ = "SAMPLES"
    THEN IF s.aligned = 0
         THEN [processed |-> <<>>, raised |-> TRUE,
               unaligned |-> <<"map_to_rtc">>]
         ELSE IF batch_samples(obj.samples).status = "ok"
         THEN [processed |-> <<obj.id>>, raised |-> FALSE,
               unaligned |-> <<>>]
         ELSE [processed |-> <<>>, raised |-> TRUE, unaligned |-> <<>>]
    ELSE IF obj.type_ = "STREAM"
    THEN IF s.buffers_aligned = 0
         THEN [processed |-> <<>>, raised |-> TRUE,
               unaligned |-> <<"submit">>]
         ELSE [processed |-> <<obj.id>>, raised |-> FALSE,
               unaligned |-> <<>>]
    ELSE [processed |-> <<>>, raised |-> FALSE, unaligned |-> <<>>]

\* for msg in self.__pre_status_buffer: process(msg) -- up to the first
\* message whose processing raises
RECURSIVE replay(_, _)
replay(s, buffer) ==
    IF buffer = <<>>
    THEN [processed |-> <<>>, raised |-> FALSE, unaligned |-> <<>>]
    ELSE LET r == process_non_status_message(s, Head(buffer))
         IN  IF r.raised
             THEN r
             ELSE LET rest == replay(s, Tail(buffer))
                  IN  [processed |-> r.processed \o rest.processed,
                       raised |-> rest.raised,
                       unaligned |-> r.unaligned \o rest.unaligned]

\* a STATUS whose rtc is more than this many seconds behind utcnow() is
\* discarded (retardation = now - obj.rtc, in whole seconds here)
StatusMaxRetardation == 60

\* the STATUS branch of _on_message for an accepted STATUS: _had_status is
\* set, the RTCifier aligned, and then state.sequence_number is read of
\* v1_accel_stream_state, which from_buf sets only for a status version of
\* 1 or more and is None otherwise (AttributeError); the six stream
\* buffers are aligned after that.  _print_status returns after its two
\* debug lines unless logging.verbose_status is configured.
on_status(s, obj) ==
    LET s1 == [s EXCEPT !.had_status = TRUE, !.aligned = obj.id]
    IN  IF obj.version >= 1
        THEN [s |-> [s1 EXCEPT !.buffers_aligned = obj.id],
              raised |-> FALSE]
        ELSE [s |-> s1, raised |-> TRUE]

\* _on_message(obj) on Ingestor state s: the state after it, the ids
\* processed by it in order, whether it raised, and its calls on objects
\* never aligned
on_message(s, obj) ==
    IF obj.type_ = "STATUS" /\ obj.retardation > StatusMaxRetardation
    THEN [s |-> s, processed |-> <<>>, raised |-> FALSE, unaligned |-> <<>>]
    ELSE LET st == IF obj.type_ = "STATUS" THEN on_status(s, obj)
                   ELSE [s |-> s, raised |-> FALSE]
         IN  IF st.raised
             THEN [s |-> st.s, processed |-> <<>>, raised |-> TRUE,
                   unaligned |-> <<>>]
             ELSE IF ~st.s.had_status
             THEN [s |-> [s EXCEPT !.pre_status_buffer = Append(@, obj)],
                   processed |-> <<>>, raised |-> FALSE, unaligned |-> <<>>]
             ELSE LET r == replay(st.s, st.s.pre_status_buffer)
                  IN  IF r.raised
                      THEN [s |-> st.s, processed |-> r.processed,
                            raised |-> TRUE, unaligned |-> r.unaligned]
                      ELSE LET q == process_non_status_message(st.s, obj)
                           IN  [s |-> [st.s EXCEPT
                                         !.pre_status_buffer = <<>>],
                                processed |-> r.processed \o q.processed,
                                raised |-> q.raised,
                                unaligned |-> r.unaligned \o q.unaligned]

\* SensorNode2Daemon.__init__
\* (aligned: the id of the STATUS that the RTCifier was last aligned to,
\* buffers_aligned: the one the stream buffers were last aligned to, 0
\* before the first)
Ingestor_init ==
    [had_status |-> FALSE, pre_status_buffer |-> <<>>, aligned |-> 0,
     buffers_aligned |-> 0]

\* (last: the message that arrived last, but for its id;
\* unaligned: the calls made so far on objects never aligned; last_raised:
\* whether the handling of the last message raised)
IngObsInit == [arrived |-> 0, processed |-> <<>>, raised |-> FALSE,
               before_gate |-> FALSE,
               last |-> [type_ |-> None, retardation |-> 0, version |-> 0,
                         samples |-> <<>>],
               unaligned |-> {},
               last_raised |-> FALSE]

IngestorInit ==
    /\ ing = Ingestor_init
    /\ ing_obs = IngObsInit

\* what NoiseMessage.get_samples yields for the records of a message: three
\* samples (rms, min, max) per record, with the timestamp of the record
RECURSIVE get_samples(_)
get_samples(timestamps) ==
    IF timestamps = <<>> THEN <<>>
    ELSE <<[timestamp |-> Head(timestamps), value |-> 0,
            sensor |-> [part |-> "custom-noise", subpart |-> "rms"]],
           [timestamp |-> Head(timestamps), value |-> 0,
            sensor |-> [part |-> "custom-noise", subpart |-> "min"]],
           [timestamp |-> Head(timestamps), value |-> 0,
            sensor |-> [part |-> "custom-noise", subpart |-> "max"]]>>
           \o get_samples(Tail(timestamps))

\* two records of different timestamps; two records of one timestamp
SamplesTwoBatches == get_samples(<<1, 2>>)
SamplesRepeated == get_samples(<<1, 1>>)

\* the status versions of the STATUS messages that arrive: without and
\* with the IMU stream states, and the latest
StatusVersions == {0, 1, MaxStatusVersion}

\* the messages that may arrive, but for their id
\* (retardation of a STATUS: its rtc ahead of the clock, equal to it, behind
\* it by just the limit and by more)
StatusRetardations ==
    {-(StatusMaxRetardation + 1), 0, StatusMaxRetardation,
     StatusMaxRetardation + 1}

MessageBodies ==
    {[type_ |-> "STATUS", retardation |-> r, version |-> v,
      samples |-> <<>>] :
        r \in StatusRetardations, v \in StatusVersions}
    \cup
    {[type_ |-> "SAMPLES", retardation |-> 0, version |-> 0,
      samples |-> SamplesTwoBatches],
     [type_ |-> "SAMPLES", retardation |-> 0, version |-> 0,
      samples |-> SamplesRepeated],
     [type_ |-> "STREAM", retardation |-> 0, version |-> 0,
      samples |-> <<>>]}

\* on_message_received fires with the next message
Ingestor_on_message ==
    /\ ing_obs.arrived < MaxMessages
    /\ \E body \in MessageBodies :
          LET obj == [id |-> ing_obs.arrived + 1, type_ |-> body.type_,
                      retardation |-> body.retardation,
                      version |-> body.version,
                      samples |-> body.samples]
              r == on_message(ing, obj)
          IN  /\ ing' = r.s
              /\ ing_obs' =
                    [arrived |-> obj.id,
                     processed |-> ing_obs.processed \o r.processed,
                     raised |-> ing_obs.raised \/ r.raised,
                     before_gate |-> ing_obs.before_gate
                         \/ (r.processed # <<>> /\ ~r.s.had_status),
                     last |-> [type_ |-> obj.type_,
                               retardation |-> obj.retardation,
                               version |-> obj.version,
                               samples |-> obj.samples],
                     unaligned |-> ing_obs.unaligned \cup
                         {r.unaligned[i] : i \in 1..Len(r.unaligned)},
                     last_raised |-> r.raised]
    /\ UNCHANGED notIng

(***************************************************************************)
(* batch_samples (src/sn2daemon/daemon.py) on its own                      *)
(***************************************************************************)

\* samples in one call
MaxBatchInput == 3

\* the samples given: two timestamps, two sensors (a DS18B20 has no
\* subpart), two subparts, two values
BatchInputSamples ==
    {[timestamp |-> t, sensor |-> [part |-> p, subpart |-> sp], value |-> v] :
        t \in {1, 2}, p \in {"bme280/0", "bme280/1"},
        sp \in {"temperature", "pressure"}, v \in {10, 20}}
      \cup {[timestamp |-> 1, sensor |-> [part |-> "ds18b20/28ff", subpart |-> None],
             value |-> 10]}

\* the sequences of at most n of them
RECURSIVE BatchInputs(_)
BatchInputs(n) ==
    IF n = 0 THEN {<<>>}
    ELSE BatchInputs(n - 1)
           \cup {Append(q, x) : q \in {p \in BatchInputs(n - 1) : Len(p) = n - 1},
                                 x \in BatchInputSamples}

BatchPending == [status |-> "pending", batches |-> <<>>]

BatchSamplesInit == bs = [in |-> <<>>, out |-> BatchPending]

\* list(batch_samples(samples))
batch_samples_call(samples) ==
    /\ bs.out.status = "pending"
    /\ bs' = [in |-> samples, out |-> batch_samples(samples)]
    /\ UNCHANGED notBs

BatchNext == \E q \in BatchInputs(MaxBatchInput) : batch_samples_call(q)

(***************************************************************************)
(* StreamBuffer (src/sn2daemon/sensor_stream.py, class Buffer)             *)
(*                                                                         *)
(* Times (datetime) and periods (timedelta) are integers, in microseconds. *)
(* The operators work on a record w = [b, file, out, raised, written]: the *)
(* Buffer object, the file "current", the blocks handed to on_emit so far, *)
(* whether the call has raised, and the t0 and period of the last header   *)
(* written.                                                                *)
(***************************************************************************)

\* Buffer.batch_size as configured
BatchSize == 2
\* most samples in one submit call, and in all submit calls of a behaviour
MaxSubmitLen == 3
MaxSamples == 4
\* largest sequence number given to submit
MaxSeqRel == 3
\* calls of align, re-constructions on the same directory, and submit calls
\* that raise, in one behaviour
MaxAligns == 2
MaxRestarts == 1
MaxRaised == 1

\* the Timeline of a Buffer: Timeline(2**16, 2**15)
BufferWraparound == 65536
BufferSlack == 32768

\* microseconds in a second
USec == 1000000

\* the sequence numbers, timestamps and periods given to align
AlignSeqs == {0, 2}
Rtcs == {10999997}
Periods == {5000, 7000}

\* a sample value that struct "<h" cannot pack stands at this offset
Unpackable == 40000

\* timedelta / int: the quotient rounded to the nearest microsecond, a tie
\* to the even one
timedelta_div(a, n) ==
    LET q == a \div n
        r == a % n
    IN  IF 2 * r < n THEN q
        ELSE IF 2 * r > n THEN q + 1
        ELSE IF q % 2 = 0 THEN q ELSE q + 1

\* struct "<h": pack (status "struct.error" out of range) and unpack
sample_struct_pack(v) ==
    IF v < -32768 \/ v > 32767
    THEN [status |-> "struct.error", bytes |-> <<>>]
    ELSE LET u == v % 65536
         IN  [status |-> "ok", bytes |-> <<u % 256, u \div 256>>]

\* struct_utils.read_all(f, sample_struct): the samples of the whole
\* 2-byte records in bytes
RECURSIVE read_all(_)
read_all(bytes) ==
    IF Len(bytes) < 2 THEN <<>>
    ELSE <<int16le(bytes[1], bytes[2])>> \o read_all(SubSeq(bytes, 3, Len(bytes)))

\* the size of the header, struct "<BQLQc"
HeaderSize == 22

\* no file "current" (a file: whether it exists and can be opened, how many
\* bytes of the header it holds, the header fields, the bytes behind it)
NoFile ==
    [exists |-> FALSE, readable |-> TRUE, header_bytes |-> 0,
     header |-> [version |-> 0, t0_s |-> 0, t0_us |-> 0, period |-> 0],
     bytes |-> <<>>]

\* Buffer.__init__, before _emit_existing (None is written 0 for the
\* period and alignment_t0; batch_none says __batch_seq_abs0 is None)
Buffer_init ==
    [timeline |-> Timeline_init,
     batch_none |-> TRUE, batch_seq_abs0 |-> 0, batch_data |-> <<>>,
     period |-> 0, alignment_t0 |-> 0, alignment_data |-> <<>>]

\* a slip: the start of the batch is left out of its timestamp
get_batch_t0_of_epoch(b) == b.alignment_t0

\* Buffer._get_batch_t0
get_batch_t0(b) == b.alignment_t0 + b.period * b.batch_seq_abs0

\* Buffer._make_header: version, t0 as seconds and microseconds, period
make_header(b) ==
    LET t0 == get_batch_t0(b)
    IN  [version |-> 0, t0_s |-> t0 \div USec, t0_us |-> t0 % USec,
         period |-> b.period]

\* Buffer._emit: on_emit(t0, period, batch_data); seq0 is the observer's
\* note of __batch_seq_abs0
emit(w) ==
    IF w.b.batch_data = <<>>
    THEN w
    ELSE [w EXCEPT
            !.out = Append(@, [t0 |-> get_batch_t0(w.b), period |-> w.b.period,
                               data |-> w.b.batch_data,
                               seq0 |-> w.b.batch_seq_abs0,
                               existing |-> FALSE]),
            !.b.batch_seq_abs0 = @ + Len(w.b.batch_data),
            !.b.batch_data = <<>>,
            !.file = NoFile]

\* writelines(pack(sample) for sample in samples): the bytes written before
\* the first sample that cannot be packed, and whether there was one
RECURSIVE writelines(_)
writelines(samples) ==
    IF samples = <<>>
    THEN [status |-> "ok", bytes |-> <<>>]
    ELSE LET h == sample_struct_pack(Head(samples))
         IN  IF h.status # "ok"
             THEN [status |-> h.status, bytes |-> <<>>]
             ELSE LET rest == writelines(Tail(samples))
                  IN  [status |-> rest.status, bytes |-> h.bytes \o rest.bytes]

\* Buffer._buffer_samples: the header is rewritten, the samples are
\* appended; the timeline and batch_data follow only when that went well
buffer_samples(w, samples) ==
    LET wl == writelines(samples)
        f == [exists |-> TRUE, readable |-> TRUE,
              header_bytes |-> HeaderSize,
              header |-> make_header(w.b),
              bytes |-> w.file.bytes \o wl.bytes]
        wr == [t0 |-> get_batch_t0(w.b), period |-> w.b.period]
    IN  IF wl.status # "ok"
        THEN [w EXCEPT !.file = f, !.written = wr, !.raised = TRUE]
        ELSE [w EXCEPT
                !.file = f, !.written = wr,
                !.b.timeline = forward(BufferWraparound, @, Len(samples)),
                !.b.batch_data = @ \o samples]

\* a slip: the batch is emitted only when it would grow beyond batch_size
RECURSIVE submit_loop_late(_, _)
submit_loop_late(w, samples) ==
    IF Len(samples) + Len(w.b.batch_data) > BatchSize
    THEN LET to_submit == BatchSize - Len(w.b.batch_data)
             w1 == buffer_samples(w, SubSeq(samples, 1, to_submit))
         IN  IF w1.raised
             THEN w1
             ELSE submit_loop_late(emit(w1),
                                   SubSeq(samples, to_submit + 1, Len(samples)))
    ELSE IF samples # <<>>
    THEN buffer_samples(w, samples)
    ELSE w

\* the while loop and the tail of Buffer.submit
RECURSIVE submit_loop(_, _)
submit_loop(w, samples) ==
    IF Len(samples) + Len(w.b.batch_data) >= BatchSize
    THEN LET to_submit == BatchSize - Len(w.b.batch_data)
             w1 == buffer_samples(w, SubSeq(samples, 1, to_submit))
         IN  IF w1.raised
             THEN w1
             ELSE submit_loop(emit(w1),
                              SubSeq(samples, to_submit + 1, Len(samples)))
    ELSE IF samples # <<>>
    THEN buffer_samples(w, samples)
    ELSE w

\* Buffer.submit with the open batch moved to the new sequence number
\* before it is emitted
submit_moves_then_emits(w, first_seq_rel, samples) ==
    LET ft == feed_and_transform(BufferWraparound, BufferSlack,
                                 w.b.timeline, first_seq_rel)
        first_seq_abs == ft.ret
        w1 == [w EXCEPT !.b.timeline = ft.tl]
        w2 == IF w1.b.batch_none
              THEN [w1 EXCEPT !.b.batch_none = FALSE,
                              !.b.batch_seq_abs0 = first_seq_abs,
                              !.b.batch_data = <<>>]
              ELSE w1
        w3 == IF first_seq_abs # w2.b.batch_seq_abs0 + Len(w2.b.batch_data)
              THEN [emit([w2 EXCEPT !.b.batch_seq_abs0 = first_seq_abs])
                      EXCEPT !.b.batch_seq_abs0 = first_seq_abs]
              ELSE w2
    IN  submit_loop(w3, samples)

\* Buffer.submit(first_seq_rel, samples)
submit(w, first_seq_rel, samples) ==
    LET ft == feed_and_transform(BufferWraparound, BufferSlack,
                                 w.b.timeline, first_seq_rel)
        first_seq_abs == ft.ret
        w1 == [w EXCEPT !.b.timeline = ft.tl]
        w2 == IF w1.b.batch_none
              THEN [w1 EXCEPT !.b.batch_none = FALSE,
                              !.b.batch_seq_abs0 = first_seq_abs,
                              !.b.batch_data = <<>>]
              ELSE w1
        w3 == IF first_seq_abs # w2.b.batch_seq_abs0 + Len(w2.b.batch_data)
              THEN [emit(w2) EXCEPT !.b.batch_seq_abs0 = first_seq_abs]
              ELSE w2
    IN  submit_loop(w3, samples)

\* sum((old_rtc - old_seq_abs * period) - rtc for ... in alignment_data)
RECURSIVE alignment_sum(_, _, _)
alignment_sum(alignment_data, period, rtc) ==
    IF alignment_data = <<>> THEN 0
    ELSE LET a == Head(alignment_data)
         IN  ((a.rtc - a.seq_abs * period) - rtc)
               + alignment_sum(Tail(alignment_data), period, rtc)

\* Buffer.align without the shift of the open batch to the new reference
align_keep_batch_seq_abs0(w, seq_rel, rtc, period) ==
    LET w1 == IF w.b.period # period
              THEN [emit(w) EXCEPT !.b.alignment_data = <<>>,
                                   !.b.timeline = reset(@, 0)]
              ELSE w
        ft == feed_and_transform(BufferWraparound, BufferSlack,
                                 w1.b.timeline, seq_rel)
        offset == ft.ret
        kept == IF Len(w1.b.alignment_data) > 2
                THEN Tail(w1.b.alignment_data)
                ELSE w1.b.alignment_data
        shifted == [i \in 1..Len(kept) |->
                      [seq_abs |-> kept[i].seq_abs - offset,
                       rtc |-> kept[i].rtc]]
        alignment_data == Append(shifted, [seq_abs |-> 0, rtc |-> rtc])
    IN  [w1 EXCEPT
           !.b.period = period,
           !.b.timeline = reset(ft.tl, seq_rel),
           !.b.alignment_data = alignment_data,
           !.b.alignment_t0 =
               rtc + timedelta_div(alignment_sum(alignment_data, period, rtc),
                                   Len(alignment_data))]

\* Buffer.align with the new period in effect before the pending batch is
\* emitted
align_new_period_first(w, seq_rel, rtc, period) ==
    LET w1 == IF w.b.period # period
              THEN [emit([w EXCEPT !.b.period = period]) EXCEPT !.b.alignment_data = <<>>,
                                   !.b.timeline = reset(@, 0)]
              ELSE w
        ft == feed_and_transform(BufferWraparound, BufferSlack,
                                 w1.b.timeline, seq_rel)
        offset == ft.ret
        kept == IF Len(w1.b.alignment_data) > 2
                THEN Tail(w1.b.alignment_data)
                ELSE w1.b.alignment_data
        shifted == [i \in 1..Len(kept) |->
                      [seq_abs |-> kept[i].seq_abs - offset,
                       rtc |-> kept[i].rtc]]
        alignment_data == Append(shifted, [seq_abs |-> 0, rtc |-> rtc])
    IN  [w1 EXCEPT
           !.b.period = period,
           !.b.timeline = reset(ft.tl, seq_rel),
           !.b.alignment_data = alignment_data,
           !.b.alignment_t0 =
               rtc + timedelta_div(alignment_sum(alignment_data, period, rtc),
                                   Len(alignment_data)),
           !.b.batch_seq_abs0 = IF w1.b.batch_none THEN @ ELSE @ - offset]

\* Buffer.align that never drops its oldest anchor
align_keep_all(w, seq_rel, rtc, period) ==
    LET w1 == IF w.b.period # period
              THEN [emit(w) EXCEPT !.b.alignment_data = <<>>,
                                   !.b.timeline = reset(@, 0)]
              ELSE w
        ft == feed_and_transform(BufferWraparound, BufferSlack,
                                 w1.b.timeline, seq_rel)
        offset == ft.ret
        kept == w1.b.alignment_data
        shifted == [i \in 1..Len(kept) |->
                      [seq_abs |-> kept[i].seq_abs - offset,
                       rtc |-> kept[i].rtc]]
        alignment_data == Append(shifted, [seq_abs |-> 0, rtc |-> rtc])
    IN  [w1 EXCEPT
           !.b.period = period,
           !.b.timeline = reset(ft.tl, seq_rel),
           !.b.alignment_data = alignment_data,
           !.b.alignment_t0 =
               rtc + timedelta_div(alignment_sum(alignment_data, period, rtc),
                                   Len(alignment_data)),
           !.b.batch_seq_abs0 = IF w1.b.batch_none THEN @ ELSE @ - offset]

\* Buffer.align(seq_rel, rtc, period)
align(w, seq_rel, rtc, period) ==
    LET w1 == IF w.b.period # period
              THEN [emit(w) EXCEPT !.b.alignment_data = <<>>,
                                   !.b.timeline = reset(@, 0)]
              ELSE w
        ft == feed_and_transform(BufferWraparound, BufferSlack,
                                 w1.b.timeline, seq_rel)
        offset == ft.ret
        kept == IF Len(w1.b.alignment_data) > 2
                THEN Tail(w1.b.alignment_data)
                ELSE w1.b.alignment_data
        shifted == [i \in 1..Len(kept) |->
                      [seq_abs |-> kept[i].seq_abs - offset,
                       rtc |-> kept[i].rtc]]
        alignment_data == Append(shifted, [seq_abs |-> 0, rtc |-> rtc])
    IN  [w1 EXCEPT
           !.b.period = period,
           !.b.timeline = reset(ft.tl, seq_rel),
           !.b.alignment_data = alignment_data,
           !.b.alignment_t0 =
               rtc + timedelta_div(alignment_sum(alignment_data, period, rtc),
                                   Len(alignment_data)),
           !.b.batch_seq_abs0 = IF w1.b.batch_none THEN @ ELSE @ - offset]

\* Buffer._parse_sample_data: t0, period and the samples of the file
parse_sample_data(file) ==
    [version |-> file.header.version,
     t0 |-> file.header.t0_s * USec + file.header.t0_us,
     period |-> file.header.period,
     data |-> read_all(file.bytes)]

\* Buffer._emit_existing, the last step of Buffer.__init__: a file that
\* cannot be opened is unlinked; a header that is short (the unpacking of
\* the fields read fails) or a microsecond field that datetime.replace
\* does not take raises out of the constructor, before the unlink
emit_existing(w) ==
    IF ~w.file.exists
    THEN w
    ELSE IF ~w.file.readable
    THEN [w EXCEPT !.file = NoFile]
    ELSE IF w.file.header_bytes < HeaderSize
    THEN [w EXCEPT !.raised = TRUE]
    ELSE LET d == parse_sample_data(w.file)
         IN  IF d.version # 0
             THEN [w EXCEPT !.file = NoFile]
             ELSE IF w.file.header.t0_us >= USec
             THEN [w EXCEPT !.raised = TRUE]
             ELSE [w EXCEPT
                     !.file = NoFile,
                     !.out = Append(@, [t0 |-> d.t0, period |-> d.period,
                                        data |-> d.data, seq0 |-> 0,
                                        existing |-> TRUE])]

\* The observer: the blocks handed to on_emit; the numbers of samples given
\* to submit, of align calls, of re-constructions and of submit calls that
\* raised; the t0 and period of the last header written; the arguments of
\* the last align; and whether the history is plain: one align, of
\* sequence number 0, then contiguous submits from 0 that all returned;
\* the first sequence number of the last submit (last_rel); and the
\* sequence number that follows the last sample of the last submit
\* (next_rel; -1 when that submit raised, or the period was changed or the
\* Buffer re-constructed since); and whether align, with the period
\* unchanged, has met an open batch that holds samples since the last
\* submit (across = 1), or the last submit returned and started at next_rel
\* after such an align (across = 2); the reference sequence number of the
\* first align (start); and whether the history is contiguous: one align,
\* then submits that all returned, the first from start and each from where
\* the one before ended, modulo 2^16 (contig); and the number of align
\* calls since the period last changed, the changing one included (run);
\* the number of constructions that raised (failed); and what a crash did
\* to the file (damage).
SbObsInit ==
    [emitted |-> <<>>, total |-> 0, aligns |-> 0, restarts |-> 0,
     raised |-> 0, written |-> [t0 |-> 0, period |-> 0],
     rtc |-> 0, period |-> 0, plain |-> FALSE,
     last_rel |-> 0, next_rel |-> -1, across |-> 0,
     start |-> -1, contig |-> FALSE, run |-> 0,
     failed |-> 0, damage |-> "none"]

BufferInit ==
    /\ sb = Buffer_init
    /\ sb_file = NoFile
    /\ sb_obs = SbObsInit

\* the record the operators work on, from the variables
World ==
    [b |-> sb, file |-> sb_file, out |-> sb_obs.emitted, raised |-> FALSE,
     written |-> sb_obs.written]

Buffer_align_upto(max, seq_rel, rtc, period) ==
    /\ sb_obs.aligns < max
    /\ LET w == align(World, seq_rel, rtc, period)
       IN  /\ sb' = w.b
           /\ sb_file' = w.file
           /\ sb_obs' = [sb_obs EXCEPT
                           !.emitted = w.out,
                           !.aligns = @ + 1,
                           !.rtc = rtc,
                           !.period = period,
                           !.next_rel = IF sb.period # period THEN -1 ELSE @,
                           !.across =
                               IF /\ sb.period = period
                                  /\ ~sb.batch_none
                                  /\ sb.batch_data # <<>>
                               THEN 1 ELSE 0,
                           !.start = IF sb_obs.aligns = 0 THEN seq_rel ELSE @,
                           !.run = IF sb.period # period THEN 1 ELSE @ + 1,
                           !.contig = /\ sb_obs.aligns = 0
                                      /\ sb_obs.total = 0
                                      /\ sb_obs.restarts = 0,
                           !.plain = /\ sb_obs.aligns = 0
                                     /\ sb_obs.total = 0
                                     /\ sb_obs.restarts = 0
                                     /\ seq_rel = 0]
    /\ UNCHANGED notSb

Buffer_align(seq_rel, rtc, period) ==
    Buffer_align_upto(MaxAligns, seq_rel, rtc, period)

\* the samples of a submit call: the i-th sample ever given to submit has
\* the value i (from 0); the bad-th of this call, if any (then the last
\* one), is unpackable
Samples(n, bad) ==
    [j \in 1..n |-> IF j = bad THEN Unpackable + sb_obs.total + j - 1
                    ELSE sb_obs.total + j - 1]

Buffer_submit(first_seq_rel, n, bad) ==
    /\ sb.period # 0
    /\ sb_obs.total + n <= MaxSamples
    /\ bad # 0 => sb_obs.raised < MaxRaised
    /\ LET w == submit(World, first_seq_rel, Samples(n, bad))
       IN  /\ sb' = w.b
           /\ sb_file' = w.file
           /\ sb_obs' = [sb_obs EXCEPT
                           !.emitted = w.out,
                           !.total = @ + n,
                           !.raised = IF w.raised THEN @ + 1 ELSE @,
                           !.written = w.written,
                           !.last_rel = first_seq_rel,
                           !.next_rel =
                               IF w.raised THEN -1
                               ELSE (first_seq_rel + n) % BufferWraparound,
                           !.across =
                               IF /\ @ = 1
                                  /\ ~w.raised
                                  /\ sb_obs.next_rel = first_seq_rel
                               THEN 2 ELSE 0,
                           !.contig =
                               /\ sb_obs.contig
                               /\ ~w.raised
                               /\ first_seq_rel
                                    = (sb_obs.start + sb_obs.total)
                                        % BufferWraparound,
                           !.plain = /\ sb_obs.plain
                                     /\ ~w.raised
                                     /\ first_seq_rel = sb_obs.total]
    /\ UNCHANGED notSb

\* the Buffer is abandoned and a new one constructed on the same directory
Buffer_restart ==
    /\ sb_obs.restarts < MaxRestarts
    /\ LET w == emit_existing([World EXCEPT !.b = Buffer_init])
       IN  /\ sb' = w.b
           /\ sb_file' = w.file
           /\ sb_obs' = [sb_obs EXCEPT
                           !.emitted = w.out,
                           !.restarts = @ + 1,
                           !.failed = IF w.raised THEN @ + 1 ELSE @,
                           !.next_rel = -1,
                           !.across = 0,
                           !.contig = FALSE,
                           !.run = 0,
                           !.plain = FALSE]
    /\ UNCHANGED notSb

\* The process stops while the file is being written, or the file is
\* damaged while no Buffer is running: what the next constructor finds
Damages == {"header_cut", "sample_cut", "version", "microsecond", "unreadable"}

Crash(kind) ==
    /\ sb_file.exists
    /\ sb_obs.damage = "none"
    /\ sb_obs.restarts = 0
    /\ kind = "sample_cut" => sb_file.bytes # <<>>
    /\ sb_file' =
         CASE kind = "header_cut" ->
                [sb_file EXCEPT !.header_bytes = HeaderSize - 1,
                                !.bytes = <<>>]
           [] kind = "sample_cut" ->
                [sb_file EXCEPT
                   !.bytes = SubSeq(@, 1, Len(@) - 1)]
           [] kind = "version" ->
                [sb_file EXCEPT !.header.version = 1]
           [] kind = "microsecond" ->
                [sb_file EXCEPT !.header.t0_us = USec]
           [] OTHER ->
                [sb_file EXCEPT !.readable = FALSE]
    /\ sb_obs' = [sb_obs EXCEPT !.damage = kind]
    /\ UNCHANGED <<sb, notSb>>

\* The Buffer, a crash and the construction that follows it
MaxExistingSamples == 2

BufferExistingNext ==
    \/ /\ sb_obs.damage = "none"
       /\ sb_obs.restarts = 0
       /\ \E seq_rel \in AlignSeqs : \E rtc \in Rtcs : \E period \in Periods :
            Buffer_align(seq_rel, rtc, period)
    \/ /\ sb_obs.damage = "none"
       /\ sb_obs.restarts = 0
       /\ \E first_seq_rel \in 0..MaxSeqRel :
            \E n \in 1..MaxExistingSamples :
              Buffer_submit(first_seq_rel, n, 0)
    \/ \E kind \in Damages : Crash(kind)
    \/ Buffer_restart

BufferNext ==
    \/ \E seq_rel \in AlignSeqs : \E rtc \in Rtcs : \E period \in Periods :
         Buffer_align(seq_rel, rtc, period)
    \/ \E first_seq_rel \in 0..MaxSeqRel : \E n \in 1..MaxSubmitLen :
         \E bad \in {0, n} : Buffer_submit(first_seq_rel, n, bad)
    \/ Buffer_restart

\* The Buffer under a longer run of align calls, with reference times that
\* differ, around the submission of a few single samples
MaxAlignRun == 4
MaxAlignSamples == 1

AlignRtcs == {10999997, 11010001}

BufferAlignNext ==
    \/ \E seq_rel \in AlignSeqs : \E rtc \in AlignRtcs :
         \E period \in Periods :
           Buffer_align_upto(MaxAlignRun, seq_rel, rtc, period)
    \/ /\ sb_obs.total < MaxAlignSamples
       /\ \E first_seq_rel \in 0..1 : Buffer_submit(first_seq_rel, 1, 0)

\* The Buffer around the wrap of its 16-bit sequence numbers: the reference
\* of align and the first sequence number of submit lie just below 2^16 or
\* just above 0.
WrapAlignSeqs == {BufferWraparound - 2, BufferWraparound - 1}

WrapSeqs ==
    {(BufferWraparound - 2 + d) % BufferWraparound : d \in 0..MaxSamples}

BufferWrapNext ==
    \/ \E seq_rel \in WrapAlignSeqs : \E rtc \in Rtcs : \E period \in Periods :
         Buffer_align(seq_rel, rtc, period)
    \/ \E first_seq_rel \in WrapSeqs : \E n \in 1..MaxSubmitLen :
         Buffer_submit(first_seq_rel, n, 0)

(***************************************************************************)
(* The daemon's queues and the SenderService (src/sn2daemon/daemon.py)     *)
(***************************************************************************)

\* queue_length of the configuration: maxsize of both queues
QueueLength == 2
\* items ever handed to one enqueue operation
MaxItems == 3
\* publish attempts observed per queue
MaxAttempts == 3

\* __stream_queue, emptied by _submit_streams_to, and __sample_queue,
\* emptied by _submit_sample_batches_to
Queues == {"stream", "sample"}

\* no item (None); the items are numbered from 1 in the order of the calls
NoItem == 0

\* a slip: a full queue turns the new item away
enqueue_loop_keep_old(queue, item, dropped) ==
    IF QueueLength > 0 /\ Len(queue) >= QueueLength
    THEN [queue |-> queue, dropped |-> Append(dropped, item)]
    ELSE [queue |-> Append(queue, item), dropped |-> dropped]

\* the while True loop of _on_stream_emit and of _enqueue_sample_batches:
\* put_nowait; on QueueFull get_nowait (QueueEmpty is passed over) and again
RECURSIVE enqueue_loop(_, _, _)
enqueue_loop(queue, item, dropped) ==
    IF QueueLength > 0 /\ Len(queue) >= QueueLength
    THEN IF queue = <<>>
         THEN enqueue_loop(queue, item, dropped)
         ELSE enqueue_loop(Tail(queue), item, Append(dropped, Head(queue)))
    ELSE [queue |-> Append(queue, item), dropped |-> dropped]

\* SenderService._wrapper: the value the task function returns is not
\* returned by the wrapper, which is the task
wrapper(returned) == NoItem

NoTask == [state |-> "absent", item |-> NoItem, cached |-> NoItem,
           result |-> NoItem]

\* SensorNode2Daemon.__init__ and SenderService.__init__: add_task has set
\* the lock event, nobody is available yet
Daemon_init ==
    [queue |-> [q \in Queues |-> <<>>],
     closed |-> {},
     locked_to |-> FALSE,
     lock_event |-> TRUE,
     tasks |-> [q \in Queues |-> NoTask]]

\* The observer: per queue, the number of enqueue calls, of drops logged
\* and the publish attempts (item, whether send returned); closes lists the
\* calls of handle.close() of stream items, with the method that made them
DqObsInit ==
    [enq |-> [q \in Queues |-> 0],
     log |-> [q \in Queues |-> 0],
     attempts |-> [q \in Queues |-> <<>>],
     closes |-> <<>>]

DaemonInit ==
    /\ dq = Daemon_init
    /\ dq_obs = DqObsInit

\* SensorNode2Daemon._on_stream_emit: the handle of a dropped item is closed
Daemon_on_stream_emit ==
    /\ dq_obs.enq["stream"] < MaxItems
    /\ LET item == dq_obs.enq["stream"] + 1
           r == enqueue_loop(dq.queue["stream"], item, <<>>)
       IN  /\ dq' = [dq EXCEPT
                       !.queue["stream"] = r.queue,
                       !.closed = @ \cup {r.dropped[i] :
                                            i \in 1..Len(r.dropped)}]
           /\ dq_obs' = [dq_obs EXCEPT
                           !.enq["stream"] = item,
                           !.log["stream"] = @ + Len(r.dropped),
                           !.closes = @ \o
                               [i \in 1..Len(r.dropped) |->
                                  [item |-> r.dropped[i],
                                   by |-> "_on_stream_emit"]]]
    /\ UNCHANGED notDq

\* SensorNode2Daemon._enqueue_sample_batches
Daemon_enqueue_sample_batches ==
    /\ dq_obs.enq["sample"] < MaxItems
    /\ LET item == dq_obs.enq["sample"] + 1
           r == enqueue_loop(dq.queue["sample"], item, <<>>)
       IN  /\ dq' = [dq EXCEPT !.queue["sample"] = r.queue]
           /\ dq_obs' = [dq_obs EXCEPT
                           !.enq["sample"] = item,
                           !.log["sample"] = @ + Len(r.dropped)]
    /\ UNCHANGED notDq

\* SenderService._on_available, for the peer
Sender_on_available ==
    /\ dq' = [dq EXCEPT !.locked_to = TRUE, !.lock_event = TRUE]
    /\ UNCHANGED <<dq_obs, notDq>>

\* SenderService._on_bare_unavailable, for the peer
Sender_on_bare_unavailable ==
    /\ dq' = [dq EXCEPT !.locked_to = FALSE, !.lock_event = FALSE]
    /\ UNCHANGED <<dq_obs, notDq>>

\* SenderService._manage_tasks, one round of the supervisor: it runs when
\* the wait of the round before returned (a task is done, or the lock
\* event is set); a task function that has no task, or whose task is done,
\* is started with the result of that task
Sender_manage_tasks ==
    /\ \/ dq.lock_event
       \/ \E q \in Queues : dq.tasks[q].state = "done"
    /\ dq' = [dq EXCEPT
                !.lock_event = FALSE,
                !.tasks =
                    IF dq.locked_to
                    THEN [q \in Queues |->
                            IF dq.tasks[q].state \in {"absent", "done"}
                            THEN [state |-> "start", item |-> NoItem,
                                  cached |-> dq.tasks[q].result,
                                  result |-> NoItem]
                            ELSE dq.tasks[q]]
                    ELSE @]
    /\ UNCHANGED <<dq_obs, notDq>>

\* _submit_streams_to / _submit_sample_batches_to, top of the loop: the
\* cached item if there is one, or else the next item of the queue
Task_take(q) ==
    /\ dq.tasks[q].state = "start"
    /\ IF dq.tasks[q].cached # NoItem
       THEN dq' = [dq EXCEPT !.tasks[q].state = "sending",
                             !.tasks[q].item = dq.tasks[q].cached,
                             !.tasks[q].cached = NoItem]
       ELSE /\ dq.queue[q] # <<>>
            /\ dq' = [dq EXCEPT !.tasks[q].state = "sending",
                                !.tasks[q].item = Head(dq.queue[q]),
                                !.queue[q] = Tail(@)]
    /\ UNCHANGED <<dq_obs, notDq>>

\* stream.send(iq) returned: the handle of a stream item is closed and the
\* loop goes round
Task_sent(q) ==
    /\ dq.tasks[q].state = "sending"
    /\ Len(dq_obs.attempts[q]) < MaxAttempts
    /\ dq' = [dq EXCEPT
                !.tasks[q].state = "start",
                !.tasks[q].item = NoItem,
                !.closed = IF q = "stream" THEN @ \cup {dq.tasks[q].item}
                           ELSE @]
    /\ dq_obs' = [dq_obs EXCEPT
                    !.attempts[q] =
                        Append(@, [item |-> dq.tasks[q].item, ok |-> TRUE]),
                    !.closes =
                        IF q = "stream"
                        THEN Append(@, [item |-> dq.tasks[q].item,
                                        by |-> "_submit_streams_to"])
                        ELSE @]
    /\ UNCHANGED notDq

\* stream.send(iq) raised XMPPError: the task function sleeps
Task_send_failed(q) ==
    /\ dq.tasks[q].state = "sending"
    /\ Len(dq_obs.attempts[q]) < MaxAttempts
    /\ dq' = [dq EXCEPT !.tasks[q].state = "backoff"]
    /\ dq_obs' = [dq_obs EXCEPT
                    !.attempts[q] =
                        Append(@, [item |-> dq.tasks[q].item, ok |-> FALSE])]
    /\ UNCHANGED notDq

\* after the sleep the task function returns the item; the wrapper sleeps
\* and the task is done
Task_return(q) ==
    /\ dq.tasks[q].state = "backoff"
    /\ dq' = [dq EXCEPT !.tasks[q].state = "done",
                        !.tasks[q].result = wrapper(dq.tasks[q].item),
                        !.tasks[q].item = NoItem]
    /\ UNCHANGED <<dq_obs, notDq>>

SenderNext ==
    \/ Daemon_on_stream_emit
    \/ Daemon_enqueue_sample_batches
    \/ Sender_on_available
    \/ Sender_on_bare_unavailable
    \/ Sender_manage_tasks
    \/ \E q \in Queues : Task_take(q)
    \/ \E q \in Queues : Task_sent(q)
    \/ \E q \in Queues : Task_send_failed(q)
    \/ \E q \in Queues : Task_return(q)

(***************************************************************************)
(* PubSubSink (src/sn2daemon/sink.py)                                      *)
(***************************************************************************)

\* queue_size given to PubSubSink
SinkQueueSize == 2
\* batches ever given to submit_batch
MaxBatches == 5

\* bare_path of a batch
BarePaths == {"a", "b"}

\* calls of submit_batches, and the batches given to one call
MaxSubmitBatches == 2
MaxBatchList == 3
\* timestamp of a batch given to submit_batches
BatchTimestamps == {1, 2}

\* (a batch is [id, bare_path, timestamp]; the id tells the batches given
\* apart and is its number in the order they were given)
NoBatch == [id |-> 0, bare_path |-> None, timestamp |-> 0]

\* PubSubSink.__init__: the queue is empty, the worker has no item
PubSubSink_init == [queue |-> <<>>, item |-> NoBatch]

\* The observer: the number of submit_batch calls, how many of them raised,
\* the drops logged, and whether the last call raised; the number of
\* submit_batches calls, the batches given to the last of them and the
\* batches it has put into the queue
SinkObsInit == [given |-> 0, raised |-> 0, log |-> 0, last_raised |-> FALSE,
                calls |-> 0, input |-> <<>>, enqueued |-> <<>>]

PubSubSinkInit ==
    /\ sink = PubSubSink_init
    /\ sink_obs = SinkObsInit

\* PubSubSink._enqueue_dropping_old: put_nowait; on QueueFull the oldest
\* item is taken out, and then self.logger, an attribute that neither
\* PubSubSink nor Sink has, is looked up: AttributeError, before the drop is
\* logged and before the second put_nowait
enqueue_dropping_old(queue, item) ==
    IF SinkQueueSize > 0 /\ Len(queue) >= SinkQueueSize
    THEN [queue |-> Tail(queue), raised |-> TRUE, logged |-> 0]
    ELSE [queue |-> Append(queue, item), raised |-> FALSE, logged |-> 0]

\* PubSubSink.submit_batch(batch)
PubSubSink_submit_batch(bare_path) ==
    /\ sink_obs.given < MaxBatches
    /\ LET batch == [id |-> sink_obs.given + 1, bare_path |-> bare_path,
                     timestamp |-> sink_obs.given + 1]
           r == enqueue_dropping_old(sink.queue, batch)
       IN  /\ sink' = [sink EXCEPT !.queue = r.queue]
           /\ sink_obs' = [sink_obs EXCEPT
                             !.given = @ + 1,
                             !.raised = IF r.raised THEN @ + 1 ELSE @,
                             !.log = @ + r.logged,
                             !.last_raised = r.raised]
    /\ UNCHANGED notSink

\* PubSubSink._worker: await self._queue.get()
PubSubSink_worker_get ==
    /\ sink.item = NoBatch
    /\ sink.queue # <<>>
    /\ sink' = [sink EXCEPT !.item = Head(sink.queue), !.queue = Tail(@)]
    /\ UNCHANGED <<sink_obs, notSink>>

\* PubSubSink._worker: _process_item is over, the loop goes round
PubSubSink_worker_processed ==
    /\ sink.item # NoBatch
    /\ sink' = [sink EXCEPT !.item = NoBatch]
    /\ UNCHANGED <<sink_obs, notSink>>

SinkNext ==
    \/ \E bare_path \in BarePaths : PubSubSink_submit_batch(bare_path)
    \/ PubSubSink_worker_get
    \/ PubSubSink_worker_processed

\* the first loop of PubSubSink.submit_batches: most_recent_by_sensor, its
\* values in the order the paths were first seen (kept); a batch replaces
\* the one kept for its path if that has a smaller timestamp
RECURSIVE most_recent_by_sensor(_, _)
most_recent_by_sensor(batches, kept) ==
    IF batches = <<>> THEN kept
    ELSE LET batch == Head(batches)
             known == \E i \in 1..Len(kept) :
                         kept[i].bare_path = batch.bare_path
         IN  most_recent_by_sensor(
                 Tail(batches),
                 IF ~known THEN Append(kept, batch)
                 ELSE [i \in 1..Len(kept) |->
                         IF /\ kept[i].bare_path = batch.bare_path
                            /\ kept[i].timestamp < batch.timestamp
                         THEN batch ELSE kept[i]])

\* the second loop of PubSubSink.submit_batches: submit_batch for every
\* value, up to the first call that raises
RECURSIVE submit_each(_, _, _)
submit_each(queue, items, enqueued) ==
    IF items = <<>>
    THEN [queue |-> queue, enqueued |-> enqueued, raised |-> FALSE]
    ELSE LET r == enqueue_dropping_old(queue, Head(items))
         IN  IF r.raised
             THEN [queue |-> r.queue, enqueued |-> enqueued, raised |-> TRUE]
             ELSE submit_each(r.queue, Tail(items),
                              Append(enqueued, Head(items)))

\* PubSubSink.submit_batches(batches)
submit_batches(queue, batches) ==
    submit_each(queue, most_recent_by_sensor(batches, <<>>), <<>>)

\* the lists of batches given to submit_batches, but for the ids
RECURSIVE BatchLists(_)
BatchLists(n) ==
    IF n = 0 THEN {<<>>}
    ELSE BatchLists(n - 1)
           \cup {Append(q, [bare_path |-> p, timestamp |-> t]) :
                    q \in {l \in BatchLists(n - 1) : Len(l) = n - 1},
                    p \in BarePaths, t \in BatchTimestamps}

PubSubSink_submit_batches(list) ==
    /\ sink_obs.calls < MaxSubmitBatches
    /\ LET batches == [i \in 1..Len(list) |->
                         [id |-> MaxBatchList * sink_obs.calls + i,
                          bare_path |-> list[i].bare_path,
                          timestamp |-> list[i].timestamp]]
           r == submit_batches(sink.queue, batches)
       IN  /\ sink' = [sink EXCEPT !.queue = r.queue]
           /\ sink_obs' = [sink_obs EXCEPT
                             !.calls = @ + 1,
                             !.input = batches,
                             !.enqueued = r.enqueued,
                             !.last_raised = r.raised]
    /\ UNCHANGED notSink

SinkBatchesNext ==
    \/ \E list \in BatchLists(MaxBatchList) : PubSubSink_submit_batches(list)
    \/ PubSubSink_worker_get
    \/ PubSubSink_worker_processed

(***************************************************************************)
(* Specifications                                                          *)
(***************************************************************************)

\* every component but the decompressor as constructed
Constructed ==
    /\ TimelineInit
    /\ ControlProtocolInit
    /\ SensorNode2ProtocolInit
    /\ IngestorInit
    /\ BufferInit
    /\ DaemonInit
    /\ PubSubSinkInit
    /\ StatusMessageInit
    /\ RTCifierInit
    /\ RunInit
    /\ BatchSamplesInit

InitTimeline == Constructed /\ CodecIdle

SpecTimeline == InitTimeline /\ [][TimelineNext]_vars

InitCodec ==
    /\ Constructed
    /\ codec_out = CodecPending
    /\ \E n \in 0..MaxPayload : \E a \in References : \E q \in Payloads(n) :
          codec_in = [average |-> a, packet |-> q]

SpecCodec == InitCodec /\ [][Codec_decompress]_vars

InitStatus == Constructed /\ CodecIdle

SpecStatus == InitStatus /\ [][StatusNext]_vars

InitRTCifier == Constructed /\ CodecIdle

SpecRTCifier == InitRTCifier /\ [][RTCifierNext]_vars

InitRun == Constructed /\ CodecIdle

\* the detect loop under the scheduling of the event loop
SpecRun == InitRun /\ [][RunNext]_vars /\ RunFairness

InitBatch == Constructed /\ CodecIdle

SpecBatch == InitBatch /\ [][BatchNext]_vars

InitControl == Constructed /\ CodecIdle

SpecControl == InitControl /\ [][ControlNext]_vars

\* the event loop runs every timer armed with call_later when its delay is
\* over and every done callback scheduled by a future; datagrams and
\* cancellations may or may not come
ControlFairness ==
    \A i \in 1..MaxRequests :
        /\ WF_vars(ControlProtocol_timeout(i))
        /\ WF_vars(ControlProtocol_fut_done(i))

SpecControlLive == InitControl /\ [][ControlNext]_vars /\ ControlFairness

InitProtocol == Constructed /\ CodecIdle

SpecProtocol == InitProtocol /\ [][ProtocolNext]_vars

InitIngest == Constructed /\ CodecIdle

SpecIngest == InitIngest /\ [][Ingestor_on_message]_vars

InitBuffer == Constructed /\ CodecIdle

SpecBuffer == InitBuffer /\ [][BufferNext]_vars

InitBufferWrap == Constructed /\ CodecIdle

SpecBufferWrap == InitBufferWrap /\ [][BufferWrapNext]_vars

InitExisting == Constructed /\ CodecIdle

SpecExisting == InitExisting /\ [][BufferExistingNext]_vars

InitAlign == Constructed /\ CodecIdle

SpecAlign == InitAlign /\ [][BufferAlignNext]_vars

InitSender == Constructed /\ CodecIdle

SpecSender == InitSender /\ [][SenderNext]_vars

InitSink == Constructed /\ CodecIdle

SpecSinkBatches == InitSink /\ [][SinkBatchesNext]_vars

SpecSink == InitSink /\ [][SinkNext]_vars

(***************************************************************************)
(* Claims about the Timeline                                               *)
(***************************************************************************)

\* C4: with the tip at (T, L), feed_and_transform(t) for t = T - k (mod W),
\* 0 <= k < slack, returns L - k and leaves both tips unchanged; for every
\* other t it sets remote_tip to t, local_tip to L + ((t - T) mod W) and
\* returns the new local_tip.
C4_FeedAndTransformFrame ==
    tl_obs.op = "feed" =>
        LET T == tl_obs.pre.remote_tip
            L == tl_obs.pre.local_tip
            t == tl_obs.arg
            k == (T - t) % TlW
        IN  IF k < TlSlack
            THEN tl_obs.ret = L - k /\ tl = tl_obs.pre
            ELSE /\ tl = [remote_tip |-> t, local_tip |-> L + ((t - T) % TlW)]
                 /\ tl_obs.ret = tl.local_tip

\* a late timestamp (k > 0) was fed to a timeline that had advanced and
\* wrapped: the value returned lies behind the tip and the tip stayed
C4_Witness ==
    /\ tl_obs.op = "feed"
    /\ tl = tl_obs.pre
    /\ tl.local_tip > TlW
    /\ tl_obs.ret < tl.local_tip
    /\ tl_obs.arg > tl.remote_tip

\* the values returned when the timestamps of seq are fed in order
RECURSIVE FeedAll(_, _, _, _)
FeedAll(W, slack, t, seq) ==
    IF seq = <<>> THEN <<>>
    ELSE LET r == feed_and_transform(W, slack, t, Head(seq))
         IN  <<r.ret>> \o FeedAll(W, slack, r.tl, Tail(seq))

\* the scenario of test_feed_and_transform_wraparound_to_zero
WraparoundScenario ==
    FeedAll(65536, 1000, Timeline_init,
            <<0, 10000, 20000, 30000, 40000, 50000, 60000, 0, 1200>>)
      = <<0, 10000, 20000, 30000, 40000, 50000, 60000, 65536, 66736>>

\* C5: over a run of feed_and_transform calls whose consecutive jumps
\* (t_i - t_{i-1}) mod W are all < W - slack, the returned values never
\* decrease and the last minus the first is the sum of the jumps (each
\* wraparound adds W); feeding 0,10000,...,60000,0,1200 to a
\* Timeline(2^16, 1000) ends with 2^16 and 2^16 + 1200.
C5_TimelineRoundTrip ==
    /\ (tl_obs.ok /\ tl_obs.n >= 1) =>
           (tl_obs.mono /\ tl_obs.last - tl_obs.first = tl_obs.sum)
    /\ WraparoundScenario

\* a full run whose timestamps wrapped and that covered more than W ticks
C5_Witness ==
    /\ tl_obs.ok
    /\ tl_obs.n = MaxFeeds
    /\ tl_obs.wraps >= 1
    /\ tl_obs.sum > TlW
    /\ tl_obs.last = tl_obs.first + tl_obs.sum

(***************************************************************************)
(* Claims about the stream decompressor                                    *)
(***************************************************************************)

\* the number of elements of s equal to x
RECURSIVE CountEq(_, _)
CountEq(s, x) ==
    IF s = <<>> THEN 0
    ELSE (IF Head(s) = x THEN 1 ELSE 0) + CountEq(Tail(s), x)

\* C6: decompress(ref, P) either fails with the codec error (ValueError
\* "codec error") or returns a list that starts with ref, has one element
\* per bitmap bit read besides, and has consumed every byte of P: bitmap
\* bytes + 1 per set bit + 2 per clear bit = len(P).  It never ends in
\* another way (a short read, bytes left over).
C6_DecompressConsumesAll ==
    codec_out.status # "pending" =>
        /\ codec_out.status \in {"ok", "ValueError"}
        /\ codec_out.status = "ok" =>
              /\ codec_out.values[1] = codec_in.average
              /\ Len(codec_out.values) = 1 + Len(codec_out.bitmap)
              /\ codec_out.consumed = Len(codec_in.packet)
              /\ codec_out.bitmap_bytes + CountEq(codec_out.bitmap, 1)
                   + 2 * CountEq(codec_out.bitmap, 0) = Len(codec_in.packet)

\* a payload with two bitmap bytes and residuals of both widths decoded
C6_Witness ==
    /\ codec_out.status = "ok"
    /\ codec_out.bitmap_bytes = 2
    /\ CountEq(codec_out.bitmap, 0) >= 1
    /\ CountEq(codec_out.bitmap, 1) >= 1
    /\ codec_in.average = -18

(***************************************************************************)
(* Claims about the ControlProtocol                                        *)
(***************************************************************************)

\* the first five bytes of a datagram of at least five bytes
Key5(buf) == SubSeq(buf, 1, 5)

\* a future has a result only from a datagram that starts with the first
\* five bytes of its own request
C7_OwnResponseOnly ==
    \A i \in 1..Len(cp.futs) :
        cp.futs[i].state = "result" =>
            /\ Len(cp.futs[i].result) >= 5
            /\ Key5(cp.futs[i].result) = Key5(cp.futs[i].request)

\* a step that receives datagram buf: one shorter than five bytes or whose
\* key no awaiter is registered under changes neither a future nor the
\* registry; one whose key a pending awaiter is registered under completes
\* exactly that awaiter with buf and unregisters it
C7_DatagramStep ==
    cp_obs'.op = "datagram" =>
        LET buf == cp_obs'.buf
        IN  IF Len(buf) < 5 \/ ~(\E e \in cp.waiters : e.key = Key5(buf))
            THEN cp' = cp
            ELSE LET i == (CHOOSE e \in cp.waiters : e.key = Key5(buf)).fut
                 IN  /\ cp'.waiters = { e \in cp.waiters : e.fut # i }
                     /\ \A j \in 1..Len(cp.futs) :
                           j # i => cp'.futs[j] = cp.futs[j]
                     /\ cp.futs[i].state = "pending" =>
                           /\ cp'.futs[i].state = "result"
                           /\ cp'.futs[i].result = buf
                           /\ Key5(cp.futs[i].request) = Key5(buf)

\* C7: concurrent requests with distinct msg_ids are each completed only
\* by a datagram whose first 5 bytes equal those of their own request,
\* whatever the order of the responses; a datagram with an unregistered
\* key or shorter than 5 bytes is dropped and completes no request.
C7_Correlation == []C7_OwnResponseOnly /\ [][C7_DatagramStep]_vars

\* two requests with different msg_ids were outstanding; the response to
\* the second has arrived first and completed the second only
C7_Witness ==
    /\ Len(cp.futs) = 2
    /\ Key5(cp.futs[1].request) # Key5(cp.futs[2].request)
    /\ cp_obs.op = "datagram"
    /\ cp.futs[2].state = "result"
    /\ cp.futs[2].result = cp_obs.buf
    /\ cp.futs[1].state = "pending"
    /\ \E e \in cp.waiters : e.fut = 1

(***************************************************************************)
(* Claims about the SensorNode2Protocol                                    *)
(***************************************************************************)

\* the messages of the well-formed frames among payloads, in order
RECURSIVE WellFormedMessages(_)
WellFormedMessages(payloads) ==
    IF payloads = <<>> THEN <<>>
    ELSE LET d == decode_message(Head(payloads))
         IN  (IF d.status = "ok" THEN <<d.msg>> ELSE <<>>)
               \o WellFormedMessages(Tail(payloads))

\* C10: a frame that fails to decode (unknown tag, truncated, malformed or
\* empty payload) is discarded without delivering a message and every
\* well-formed frame after it is still decoded and delivered: once all the
\* bytes sent have been received, the messages delivered are exactly those
\* of the well-formed frames sent, in order.
C10_BadFrameDoesNotKill ==
    snp_net = <<>> => snp_obs.received = WellFormedMessages(snp_obs.sent)

(***************************************************************************)
(* Claims about the Ingestor gate                                          *)
(***************************************************************************)

\* C1: no sample-bearing or stream message is processed before the first
\* in-window STATUS has been handled, and every message buffered before
\* that STATUS is processed exactly once, in arrival order, and never again
\* by a later message: nothing was processed while the gate was closed and
\* the ids processed so far are strictly increasing.
C1_GateExactlyOnce ==
    /\ ~ing_obs.before_gate
    /\ ~ing.had_status => ing_obs.processed = <<>>
    /\ \A i \in 1..Len(ing_obs.processed) : \A j \in 1..Len(ing_obs.processed) :
          i < j => ing_obs.processed[i] < ing_obs.processed[j]

(***************************************************************************)
(* Claims about the StreamBuffer                                           *)
(***************************************************************************)

\* C2: after one align (sequence 0 at time t0, period p) and contiguous
\* submits from sequence 0 that total k*BatchSize + r samples, however they
\* are split into calls: exactly k blocks were emitted, the i-th (from 0)
\* carries the samples i*BatchSize .. (i+1)*BatchSize - 1 with timestamp
\* t0 + i*BatchSize*p and period p, and the open batch holds the other r.
C2_ExactBatching ==
    sb_obs.plain =>
        LET k == sb_obs.total \div BatchSize
            r == sb_obs.total % BatchSize
        IN  /\ Len(sb_obs.emitted) = k
            /\ \A i \in 0..(k - 1) :
                 LET e == sb_obs.emitted[i + 1]
                 IN  /\ e.t0 = sb_obs.rtc + i * BatchSize * sb_obs.period
                     /\ e.period = sb_obs.period
                     /\ e.data = [j \in 1..BatchSize |-> i * BatchSize + j - 1]
            /\ sb.batch_data = [j \in 1..r |-> k * BatchSize + j - 1]

\* contiguous submits have filled more than one batch: a block is out and
\* samples are left in the open batch
C2_Witness ==
    /\ sb_obs.plain
    /\ sb_obs.total > BatchSize
    /\ Len(sb_obs.emitted) >= 1
    /\ sb.batch_data # <<>>

\* C3: when a Buffer is abandoned and a new one is constructed on the same
\* directory, the constructor emits exactly once the samples that were
\* accepted but not yet emitted, with the t0 and period of the last write,
\* and nothing when there are none.
C3_RestartStep ==
    sb_obs'.restarts # sb_obs.restarts =>
        sb_obs'.emitted =
            IF sb.batch_data # <<>>
            THEN Append(sb_obs.emitted,
                        [t0 |-> sb_obs.written.t0,
                         period |-> sb_obs.written.period,
                         data |-> sb.batch_data,
                         seq0 |-> 0, existing |-> TRUE])
            ELSE sb_obs.emitted

C3_RestartEmitsPending == [][C3_RestartStep]_vars

\* C8: under one alignment, the blocks are emitted in the order of their
\* absolute start sequence seq0 and the ranges [seq0, seq0 + len) of two
\* blocks do not overlap, whatever the order of the packets submitted.
C8_EmissionOrder ==
    (sb_obs.aligns <= 1 /\ sb_obs.restarts = 0 /\ sb_obs.raised = 0) =>
        \A i \in 1..Len(sb_obs.emitted) : \A j \in 1..Len(sb_obs.emitted) :
            i < j => sb_obs.emitted[i].seq0 + Len(sb_obs.emitted[i].data)
                       <= sb_obs.emitted[j].seq0

\* C9: whenever the file exists it begins with a version-0 header with the
\* t0 and period computed at the last write, and the samples after the
\* header are exactly the packed batch_data, in order -- also after a
\* submit that raised while writing.
C9_FileMatchesBatch ==
    sb_file.exists =>
        /\ sb_file.header.version = 0
        /\ sb_file.header.t0_s * USec + sb_file.header.t0_us
             = sb_obs.written.t0
        /\ sb_file.header.period = sb_obs.written.period
        /\ sb_file.bytes = writelines(sb.batch_data).bytes

(***************************************************************************)
(* Claims about ControlProtocol timeouts                                   *)
(***************************************************************************)

\* the step is the firing of the timer of request i
TimerFires(i) ==
    /\ i \in 1..Len(cp.futs)
    /\ Len(cp'.futs) = Len(cp.futs)
    /\ cp.futs[i].timer
    /\ ~cp'.futs[i].timer

\* C14: a request whose response has not arrived when its timeout elapses
\* fails with TimeoutError and its awaiter is removed from the registry, so
\* a response that arrives later is dropped: when the timer of a pending
\* request fires, that request gets the exception and no awaiter is left
\* under its key.
C14_TimeoutStep ==
    \A i \in 1..MaxRequests :
        (TimerFires(i) /\ cp.futs[i].state = "pending") =>
            /\ cp'.futs[i].state = "exception"
            /\ ~waiters_has(cp'.waiters, Key5(cp.futs[i].request))

C14_TimeoutFailsRequest == [][C14_TimeoutStep]_vars

\* C15: the timer of a request is cancelled when its future completes, so
\* no request fails with TimeoutError before its own timeout has elapsed,
\* also when a later request reuses the key: a request that has the
\* exception has had its own timer fire.
C15_NoEarlyTimeout ==
    \A i \in 1..Len(cp.futs) :
        cp.futs[i].state = "exception" => ~cp.futs[i].timer

(***************************************************************************)
(* More claims about the Timeline                                          *)
(***************************************************************************)

\* C16: across feed_and_transform and forward calls local_tip never
\* decreases; reset is the only call that lowers it, and sets it to 0.
C16_Step ==
    /\ tl_obs'.op \in {"feed", "forward"} => tl'.local_tip >= tl.local_tip
    /\ tl_obs'.op = "reset" => tl'.local_tip = 0

C16_LocalTipMonotone == [][C16_Step]_vars

\* a late timestamp was fed: the value returned lies behind the tip, and
\* the tip, which had advanced before, stayed where it was
C16_Witness ==
    /\ tl_obs.op = "feed"
    /\ tl_obs.pre.local_tip > 0
    /\ tl_obs.ret < tl_obs.pre.local_tip
    /\ tl.local_tip = tl_obs.pre.local_tip

(***************************************************************************)
(* More claims about the StreamBuffer                                      *)
(***************************************************************************)

\* the step is a submit call (every submit call has at least one sample)
SubmitStep == sb_obs'.total > sb_obs.total
\* the step is an align call
AlignStep == sb_obs'.aligns > sb_obs.aligns

\* the samples of the blocks in order, one after the other
RECURSIVE BlocksData(_)
BlocksData(blocks) ==
    IF blocks = <<>> THEN <<>>
    ELSE Head(blocks).data \o BlocksData(Tail(blocks))

\* the blocks the step has handed to on_emit
NewBlocks ==
    SubSeq(sb_obs'.emitted, Len(sb_obs.emitted) + 1, Len(sb_obs'.emitted))

\* the absolute sequence number submit would compute for first_seq_rel
FirstSeqAbs(first_seq_rel) ==
    feed_and_transform(BufferWraparound, BufferSlack,
                       sb.timeline, first_seq_rel).ret

\* C17 (state): while a batch is open and the period has not changed since
\* the last submit, batch_seq_abs0 + len(batch_data) is the absolute
\* sequence number of the sample that follows the last one submitted, also
\* after align calls in between.
C17_NextExpected ==
    (sb_obs.next_rel >= 0 /\ ~sb.batch_none) =>
        FirstSeqAbs(sb_obs.next_rel)
            = sb.batch_seq_abs0 + Len(sb.batch_data)

\* C17 (step): a submit that starts where the previous one ended is
\* appended to the open batch: whatever is emitted is a full batch and the
\* open batch followed by the new samples is what is emitted and kept, in
\* order.
C17_Step ==
    (/\ SubmitStep
     /\ sb_obs.next_rel >= 0
     /\ sb_obs'.last_rel = sb_obs.next_rel
     /\ sb_obs'.raised = sb_obs.raised) =>
        /\ \A i \in 1..Len(NewBlocks) : Len(NewBlocks[i].data) = BatchSize
        /\ BlocksData(NewBlocks) \o sb'.batch_data
             = sb.batch_data
                 \o [j \in 1..(sb_obs'.total - sb_obs.total) |->
                       sb_obs.total + j - 1]

C17_ContiguousAcrossAlign == []C17_NextExpected /\ [][C17_Step]_vars

\* samples were submitted, align was called with the same period and a
\* reference sequence number other than the tip, and the following
\* contiguous submit has extended the open batch
C17_Witness ==
    /\ sb_obs.across = 2
    /\ sb_obs.raised = 0
    /\ Len(sb_obs.emitted) = 1
    /\ sb_obs.emitted[1].data = <<0, 1>>
    /\ sb_obs.emitted[1].seq0 < 0
    /\ sb.timeline.local_tip # sb.batch_seq_abs0 + Len(sb.batch_data)

\* C18: a submit whose first absolute sequence number is not
\* batch_seq_abs0 + len(batch_data) of a non-empty open batch first emits
\* that batch whole, with the t0 of its own first sample and its period,
\* and then starts a batch at the new sequence number: the next block, or
\* the batch left open, begins there, and holds the new samples in order.
C18_Step ==
    LET first_seq_abs == FirstSeqAbs(sb_obs'.last_rel)
        samples == [j \in 1..(sb_obs'.total - sb_obs.total) |->
                      sb_obs.total + j - 1]
        kept == BlocksData(Tail(NewBlocks)) \o sb'.batch_data
    IN  (/\ SubmitStep
         /\ ~sb.batch_none
         /\ sb.batch_data # <<>>
         /\ first_seq_abs # sb.batch_seq_abs0 + Len(sb.batch_data)) =>
            /\ Len(NewBlocks) >= 1
            /\ NewBlocks[1].data = sb.batch_data
            /\ NewBlocks[1].t0
                 = sb.alignment_t0 + sb.period * sb.batch_seq_abs0
            /\ NewBlocks[1].period = sb.period
            /\ IF Len(NewBlocks) >= 2
               THEN /\ NewBlocks[2].seq0 = first_seq_abs
                    /\ NewBlocks[2].t0
                         = sb.alignment_t0 + sb.period * first_seq_abs
               ELSE /\ ~sb'.batch_none
                    /\ sb'.batch_seq_abs0 = first_seq_abs
                    /\ get_batch_t0(sb')
                         = sb.alignment_t0 + sb.period * first_seq_abs
            /\ Len(kept) <= Len(samples)
            /\ kept = SubSeq(samples, 1, Len(kept))
            /\ sb_obs'.raised = sb_obs.raised => kept = samples

C18_DiscontinuityEmits == [][C18_Step]_vars

\* one sample was buffered, the next submit skipped ahead: the short batch
\* and then a full batch that starts at the new sequence number came out
C18_Witness ==
    /\ sb_obs.aligns = 1
    /\ sb_obs.restarts = 0
    /\ sb_obs.raised = 0
    /\ Len(sb_obs.emitted) = 2
    /\ Len(sb_obs.emitted[1].data) = 1
    /\ Len(sb_obs.emitted[2].data) = BatchSize
    /\ sb_obs.emitted[2].seq0 > sb_obs.emitted[1].seq0 + 1
    /\ sb_obs.emitted[2].t0
         = sb.alignment_t0 + sb.period * sb_obs.emitted[2].seq0

\* C20: align with a period other than the current one, while a non-empty
\* batch is open, emits that batch exactly once, whole, with the old period
\* and the old alignment; afterwards the alignment history is the new anchor
\* (0, rtc) alone, alignment_t0 is rtc and the new period is in effect.
\* align with the period unchanged emits nothing.
C20_Step ==
    AlignStep =>
        /\ (/\ sb.period # sb_obs'.period
            /\ ~sb.batch_none
            /\ sb.batch_data # <<>>) =>
               /\ Len(NewBlocks) = 1
               /\ NewBlocks[1].data = sb.batch_data
               /\ NewBlocks[1].period = sb.period
               /\ NewBlocks[1].t0
                    = sb.alignment_t0 + sb.period * sb.batch_seq_abs0
               /\ sb'.alignment_data
                    = <<[seq_abs |-> 0, rtc |-> sb_obs'.rtc]>>
               /\ sb'.alignment_t0 = sb_obs'.rtc
               /\ sb'.period = sb_obs'.period
               /\ sb'.batch_data = <<>>
        /\ sb.period = sb_obs'.period => NewBlocks = <<>>

C20_PeriodChangeEmits == [][C20_Step]_vars

\* a sample was pending under one period when align set another: the one
\* sample came out with the old period and the history was reset
C20_Witness ==
    /\ sb_obs.aligns = 2
    /\ sb_obs.restarts = 0
    /\ sb_obs.raised = 0
    /\ sb_obs.total = 1
    /\ Len(sb_obs.emitted) = 1
    /\ sb_obs.emitted[1].data = <<0>>
    /\ sb_obs.emitted[1].period # sb.period
    /\ Len(sb.alignment_data) = 1
    /\ sb.batch_data = <<>>

EnqueueStep(q) == dq_obs'.enq[q] # dq_obs.enq[q]

\* C11 (step): an enqueue call returns with the new item last in the
\* queue; when the queue was full exactly its oldest item is gone and one
\* drop is logged, otherwise nothing is gone and nothing logged; the items
\* that stay keep their order.
C11_Step ==
    \A q \in Queues :
        EnqueueStep(q) =>
            LET old == dq.queue[q]
                full == Len(old) >= QueueLength
            IN  /\ dq'.queue[q]
                     = Append(IF full THEN Tail(old) ELSE old,
                              dq_obs'.enq[q])
                /\ dq_obs'.log[q] = dq_obs.log[q] + (IF full THEN 1 ELSE 0)

\* C11 (state): no queue is ever longer than its maxsize
C11_Bounded == \A q \in Queues : Len(dq.queue[q]) <= QueueLength

C11_EnqueueDropsOldest == []C11_Bounded /\ [][C11_Step]_vars

\* both queues are full, each after a drop, and hold the newest items
C11_Witness ==
    \A q \in Queues :
        /\ Len(dq.queue[q]) = QueueLength
        /\ dq_obs.log[q] >= 1
        /\ dq.queue[q][QueueLength] = dq_obs.enq[q]
        /\ dq.queue[q][1] = dq_obs.enq[q] - QueueLength + 1

\* C13: a publish attempt that failed is followed, on the same queue, by an
\* attempt to publish the same item.
C13_RetrySameItem ==
    \A q \in Queues :
        \A i \in 1..(Len(dq_obs.attempts[q]) - 1) :
            ~dq_obs.attempts[q][i].ok =>
                dq_obs.attempts[q][i + 1].item = dq_obs.attempts[q][i].item

\* the step is a submit_batch call
SubmitBatchStep == sink_obs'.given # sink_obs.given

\* C12: submit_batch returns, with the new batch last in the queue; when
\* the queue was full its oldest batch is gone and the drop is logged.
C12_Step ==
    SubmitBatchStep =>
        LET full == Len(sink.queue) >= SinkQueueSize
        IN  /\ ~sink_obs'.last_raised
            /\ sink'.queue # <<>>
            /\ sink'.queue[Len(sink'.queue)].id = sink_obs'.given
            /\ full => /\ SubSeq(sink'.queue, 1, Len(sink'.queue) - 1)
                            = Tail(sink.queue)
                       /\ sink_obs'.log = sink_obs.log + 1

C12_SubmitBatchSucceeds == [][C12_Step]_vars

(***************************************************************************)
(* Claims about the alignment anchors of the StreamBuffer                  *)
(***************************************************************************)

\* sum of (anchor.rtc - anchor.seq_abs * period - rtc) over the anchors
RECURSIVE AnchorSum(_, _, _)
AnchorSum(anchors, period, rtc) ==
    IF anchors = <<>> THEN 0
    ELSE (Head(anchors).rtc - Head(anchors).seq_abs * period - rtc)
           + AnchorSum(Tail(anchors), period, rtc)

\* C21 (state): never more than 3 alignment anchors are kept.
C21_AtMostThree == Len(sb.alignment_data) <= 3

\* C21 (step): align with the period unchanged drops the oldest anchor when
\* there are three, moves the sequence numbers of the others by -offset
\* (offset: the absolute number the timeline gave seq_rel before the call),
\* appends (0, rtc), sets alignment_t0 to rtc plus the mean, to the nearest
\* microsecond, of (anchor.rtc - anchor.seq * period - rtc) over the anchors
\* now kept, and moves an open batch by -offset, so that its t0 is
\* alignment_t0 + period * (batch_seq_abs0 - offset).
C21_Step ==
    (AlignStep /\ sb.period = sb_obs'.period) =>
        LET seq_rel == sb'.timeline.remote_tip
            offset == FirstSeqAbs(seq_rel)
            rtc == sb_obs'.rtc
            old == sb.alignment_data
            kept == IF Len(old) > 2 THEN Tail(old) ELSE old
            new == sb'.alignment_data
            n == Len(new)
            sum == AnchorSum(new, sb.period, rtc)
            d == n * (sb'.alignment_t0 - rtc) - sum
        IN  /\ n = Len(kept) + 1
            /\ \A i \in 1..Len(kept) :
                 new[i] = [seq_abs |-> kept[i].seq_abs - offset,
                           rtc |-> kept[i].rtc]
            /\ new[n] = [seq_abs |-> 0, rtc |-> rtc]
            /\ 2 * d <= n
            /\ 2 * d >= -n
            /\ ~sb.batch_none =>
                 /\ sb'.batch_seq_abs0 = sb.batch_seq_abs0 - offset
                 /\ get_batch_t0(sb')
                      = sb'.alignment_t0
                          + sb.period * (sb.batch_seq_abs0 - offset)

C21_AlignAnchors == []C21_AtMostThree /\ [][C21_Step]_vars

\* four aligns in a row with one period: the first anchor is gone, three
\* are kept, their times differ, and a batch with a sample is open
C21_Witness ==
    /\ sb_obs.run = MaxAlignRun
    /\ Len(sb.alignment_data) = 3
    /\ sb.alignment_data[1].rtc # sb.alignment_data[3].rtc
    /\ sb.alignment_data[1].seq_abs # 0
    /\ sb.alignment_t0 # sb_obs.rtc
    /\ sb_obs.across = 1
    /\ ~sb.batch_none
    /\ sb.batch_data # <<>>

(***************************************************************************)
(* Claims about the file found at construction of the StreamBuffer         *)
(***************************************************************************)

\* the step is the construction of a Buffer
RestartStep == sb_obs'.restarts # sb_obs.restarts

\* the file cannot be parsed, or has a version other than 0
Unusable(file) ==
    \/ ~file.readable
    \/ file.header_bytes < HeaderSize
    \/ file.header.version # 0
    \/ file.header.t0_us >= USec

\* C22: construction never fails on the file it finds and leaves no file
\* behind; a file that is corrupt or of an unknown version is dropped
\* without an emission; any other file is emitted once, with the t0 and
\* period of its header and all of its whole samples.
C22_Step ==
    RestartStep =>
        /\ sb_obs'.failed = sb_obs.failed
        /\ ~sb_file'.exists
        /\ (sb_file.exists /\ Unusable(sb_file)) => NewBlocks = <<>>
        /\ ~sb_file.exists => NewBlocks = <<>>
        /\ (sb_file.exists /\ ~Unusable(sb_file)) =>
              NewBlocks =
                <<[t0 |-> sb_file.header.t0_s * USec + sb_file.header.t0_us,
                   period |-> sb_file.header.period,
                   data |-> read_all(sb_file.bytes),
                   seq0 |-> 0, existing |-> TRUE]>>

C22_ExistingFile == [][C22_Step]_vars

(***************************************************************************)
(* More claims about the Ingestor gate                                     *)
(***************************************************************************)

\* the step is the arrival of a message
MessageStep == ing_obs'.arrived # ing_obs.arrived

\* the message is a STATUS whose rtc is within the limit of the clock, on
\* either side
InWindow(obj) ==
    /\ obj.type_ = "STATUS"
    /\ obj.retardation <= StatusMaxRetardation
    /\ obj.retardation >= -StatusMaxRetardation

\* C23: the gate opens, and the RTCifier and the stream buffers are aligned
\* again, only by a STATUS whose rtc is at most 60 s from the clock; a
\* STATUS whose rtc is more than 60 s behind the clock changes nothing: no
\* alignment, no opening of the gate, nothing buffered, nothing processed.
C23_Step ==
    MessageStep =>
        LET obj == ing_obs'.last
        IN  /\ (ing'.had_status /\ ~ing.had_status) => InWindow(obj)
            /\ ing'.aligned # ing.aligned => InWindow(obj)
            /\ (obj.type_ = "STATUS"
                  /\ obj.retardation > StatusMaxRetardation) =>
                  /\ ing' = ing
                  /\ ing_obs'.processed = ing_obs.processed

C23_GateWindow == [][C23_Step]_vars


(***************************************************************************)
(* Claims about the range of decoded stream values                         *)
(***************************************************************************)

\* C24: every value of the list returned by decompress (the reference and
\* the reference plus the residual of each bitmap bit) is a 16-bit signed
\* integer, for every int16 reference and every payload that decodes.
C24_ValuesInt16 ==
    codec_out.status = "ok" =>
        \A i \in 1..Len(codec_out.values) :
            codec_out.values[i] \in -32768..32767


\* the frame a delivered stream message comes from carries its type, its
\* sequence number, and the data are what decompress returns for the
\* reference field read as a signed 16-bit integer and the bytes after the
\* 4-byte header
FromSignedReference(m, f) ==
    /\ Len(f) >= 5
    /\ f[1] = m.type_
    /\ m.seq = uint16le(f[2], f[3])
    /\ LET d == decompress(int16le(f[4], f[5]), SubSeq(f, 6, Len(f)))
       IN  d.status = "ok" /\ m.data = d.values

\* C25: SensorStreamMessage.from_buf hands decompress the reference field
\* of the header reinterpreted as a signed 16-bit integer (0xffee gives
\* -18) and exactly the bytes after the 4-byte header: every stream
\* message delivered is the one so decoded from a frame that was sent.
C25_SignedReference ==
    \A i \in 1..Len(snp_obs.received) :
        \E j \in 1..Len(snp_obs.sent) :
            FromSignedReference(snp_obs.received[i], snp_obs.sent[j])


(***************************************************************************)
(* Claims about StatusMessage.from_buf                                     *)
(***************************************************************************)

\* the sections a status of version v carries, in their order
ExpectedSections(v) ==
    (IF v >= 1 THEN <<"imu", "imu">> ELSE <<>>)
      \o (IF v >= 2 THEN <<"i2c", "i2c", "bme280">> ELSE <<>>)
      \o (IF v >= 4 THEN <<"bme280">> ELSE <<>>)
      \o (IF v >= 5 THEN <<"tx">> ELSE <<>>)
      \o (IF v = 5 THEN <<"tasks">> ELSE <<>>)
      \o (IF v >= 6 THEN <<"cpu">> ELSE <<>>)

\* the attributes a status of version v carries
ExpectedAttrs(v) ==
    {"rtc", "uptime"}
      \cup (IF v >= 1 THEN {"v1_accel_stream_state",
                            "v1_compass_stream_state"} ELSE {})
      \cup (IF v >= 2 THEN {"v2_i2c_metrics", "v2_bme280_metrics",
                            "v4_bme280_metrics"} ELSE {})
      \cup (IF v >= 5 THEN {"v5_tx_metrics"} ELSE {})
      \cup (IF v = 5 THEN {"v5_task_metrics"} ELSE {})
      \cup (IF v >= 6 THEN {"v6_cpu_metrics"} ELSE {})

\* C26: from_buf rejects every payload with proto_ver # 1 or
\* status_ver > 6 (ValueError); a payload it accepts has proto_ver 1 and a
\* status_ver v in 0..6, and exactly these sections were decoded from it,
\* in this order: two IMU stream states iff v >= 1, two I2C metrics and
\* the BME280 metrics iff v >= 2, TX metrics iff v >= 5, task metrics iff
\* v = 5, the 32 CPU counters iff v >= 6; every attribute of a section
\* that v does not have reads None.
C26_StatusSections ==
    sm.out.status # "pending" =>
        /\ (Len(sm.in) >= 8 /\ (sm.in[7] # 1 \/ sm.in[8] > 6)) =>
               sm.out.status = "ValueError"
        /\ sm.out.status = "ok" =>
               LET v == sm.in[8]
               IN  /\ sm.in[7] = 1
                   /\ v \in 0..6
                   /\ sm.out.sections = ExpectedSections(v)
                   /\ v >= 2 => Len(sm.out.v2_i2c_metrics) = 2
                   /\ v >= 6 => Len(sm.out.v6_cpu_metrics) = 32
                   /\ \A a \in StatusAttrs :
                        sm.out.attr[a] =
                          IF a \in ExpectedAttrs(v) THEN "set" ELSE "None"

\* C27: in every accepted status of version v >= 2, v4_bme280_metrics has
\* two entries and v2_bme280_metrics is entry 0.  Entry 0 is, for v = 2,
\* (configure_status 0x00, timeouts = the u16 at the BME280 offset) and,
\* for v >= 3, (configure_status = the u8 there, timeouts = the u16 after
\* it); entry 1 is (timeouts 0, configure_status 0xff) for v < 4 and
\* decoded from the next three bytes for v >= 4.
C27_Bme280Entries ==
    (sm.out.status = "ok" /\ sm.in[8] >= 2) =>
        LET v == sm.in[8]
            m == sm.out.v4_bme280_metrics
            at(k) == sm.in[8 + 16 + k]
        IN  /\ Len(m) = 2
            /\ sm.out.v2_bme280_metrics = m[1]
            /\ m[1] = IF v = 2
                      THEN [configure_status |-> 0,
                            timeouts |-> at(1) + 256 * at(2)]
                      ELSE [configure_status |-> at(1),
                            timeouts |-> at(2) + 256 * at(3)]
            /\ m[2] = IF v < 4
                      THEN [configure_status |-> 255, timeouts |-> 0]
                      ELSE [configure_status |-> at(4),
                            timeouts |-> at(5) + 256 * at(6)]

\* a version 4 status with the records (0x12, 20) and (0x34, 1204) decoded
C27_Witness ==
    /\ sm.out.status = "ok"
    /\ sm.in[8] = 4
    /\ sm.out.v4_bme280_metrics =
         <<[configure_status |-> 18, timeouts |-> 20],
           [configure_status |-> 52, timeouts |-> 1204]>>
    /\ sm.out.v2_bme280_metrics = [configure_status |-> 18, timeouts |-> 20]


(***************************************************************************)
(* Claims about the RTCifier                                               *)
(***************************************************************************)

\* C28: align(rtc, t0) leaves the timeline at a new epoch at t0
\* (remote_tip = t0, local_tip = 0) whatever its state was, and rtc as the
\* base.  A map_to_rtc(t) after it returns the base of the most recent
\* align plus feed_and_transform(t) milliseconds: map_to_rtc(t0) right
\* after the align returns rtc, and over calls whose timestamps go forward
\* from t0 (each jump (t_i - t_{i-1}) mod W below W - slack) it returns
\* rtc + the sum of the jumps in milliseconds, wraparounds included.
C28_AlignAndMap ==
    /\ rt_obs.op = "align" =>
           /\ rt.timeline = [remote_tip |-> rt_obs.t0, local_tip |-> 0]
           /\ rt.rtcbase = rt_obs.rtc
           /\ rt.aligned
    /\ (rt_obs.op = "map" /\ rt_obs.aligns >= 1) =>
           /\ ~rt_obs.raised
           /\ rt.rtcbase = rt_obs.rtc
           /\ rt_obs.ret =
                rt_obs.rtc
                  + 1000 * feed_and_transform(TlW, TlSlack,
                               rt_obs.pre.timeline, rt_obs.arg).ret
           /\ (rt_obs.n = 1 /\ rt_obs.arg = rt_obs.t0) =>
                  rt_obs.ret = rt_obs.rtc
           /\ rt_obs.ok => rt_obs.ret = rt_obs.rtc + 1000 * rt_obs.sum

\* after a second align, called on a timeline that had advanced, three
\* timestamps went forward past the wraparound and over more than W ticks
C28_Witness ==
    /\ rt_obs.op = "map"
    /\ rt_obs.aligns = 2
    /\ rt_obs.moved
    /\ rt_obs.ok
    /\ rt_obs.n = 3
    /\ rt_obs.wraps >= 1
    /\ rt_obs.sum > TlW
    /\ rt_obs.ret = rt_obs.rtc + 1000 * rt_obs.sum


(***************************************************************************)
(* Claims about Timeline.forward                                           *)
(***************************************************************************)

\* the timeline after n feed_and_transform calls, each with the timestamp
\* that follows the remote tip (with wraparound)
RECURSIVE FeedSuccessors(_, _, _, _)
FeedSuccessors(W, slack, t, n) ==
    IF n = 0 THEN t
    ELSE FeedSuccessors(W, slack,
             feed_and_transform(W, slack, t, (t.remote_tip + 1) % W).tl,
             n - 1)

\* the scenario of test_forward: on a fresh Timeline(2^16, 1000),
\* forward(2^16 + 5), then feed_and_transform(10)
ForwardScenario ==
    feed_and_transform(65536, 1000,
                       forward(65536, Timeline_init, 65536 + 5), 10).ret
      = 65536 + 10

\* C29: forward(n) leaves the timeline in the state (remote_tip,
\* local_tip) that n successive feed_and_transform calls leave it in, the
\* first with the timestamp after the current remote_tip and each next one
\* with the timestamp one further (with wraparound); on a fresh
\* Timeline(2^16, 1000), forward(2^16 + 5) followed by
\* feed_and_transform(10) returns 2^16 + 10.
C29_ForwardIsRepeatedFeed ==
    /\ tl_obs.op = "forward" =>
           tl = FeedSuccessors(TlW, TlSlack, tl_obs.pre, tl_obs.arg)
    /\ ForwardScenario

\* forward went over more than a whole cycle on a timeline that had
\* advanced, and the remote tip wrapped
C29_Witness ==
    /\ tl_obs.op = "forward"
    /\ tl_obs.arg > TlW
    /\ tl_obs.pre.local_tip > 0
    /\ tl_obs.pre.remote_tip > 0
    /\ tl.remote_tip < tl_obs.pre.remote_tip
    /\ tl.local_tip = tl_obs.pre.local_tip + tl_obs.arg


(***************************************************************************)
(* Claims about the detect loop of SensorNode2Daemon.run                   *)
(***************************************************************************)

\* C30: whatever the outcome of a control-protocol request (a response, a
\* timeout), the loop does not end: the TimeoutError of detect or
\* configure is caught, and every detect attempt is eventually followed by
\* another one (after the sleep).  The attempts of one behaviour are
\* counted up to MaxDetects.
C30_DetectAgain ==
    /\ [](run.pc # "terminated")
    /\ \A n \in 1..(MaxDetects - 1) :
         (run.detects = n) ~> (run.detects = n + 1)


(***************************************************************************)
(* Claims about batch_samples                                              *)
(***************************************************************************)

\* the samples of the batches, in order, each with the timestamp and the
\* bare path of its batch
RECURSIVE BatchesFlat(_)
BatchesFlat(batches) ==
    IF batches = <<>> THEN <<>>
    ELSE LET b == Head(batches)
         IN  [i \in 1..Len(b.samples) |->
                [timestamp |-> b.timestamp,
                 sensor |-> [b.bare_path EXCEPT !.subpart = b.samples[i].subpart],
                 value |-> b.samples[i].value]]
               \o BatchesFlat(Tail(batches))

\* the places of input where the timestamp or the bare path changes from
\* one sample to the next
BatchBreaks(input) ==
    {i \in 1..(Len(input) - 1) :
        \/ input[i].timestamp # input[i + 1].timestamp
        \/ bare_path_of(input[i].sensor) # bare_path_of(input[i + 1].sensor)}

\* the batches are those of the input: non-empty, no subpart twice in a
\* batch, all samples in order with the timestamp and bare path of their
\* batch, a new batch exactly at every change of timestamp or bare path
BatchesOf(input, batches) ==
    /\ \A k \in 1..Len(batches) :
         LET b == batches[k]
         IN  /\ b.samples # <<>>
             /\ b.bare_path.subpart = None
             /\ \A i, j \in 1..Len(b.samples) :
                  i # j => b.samples[i].subpart # b.samples[j].subpart
    /\ BatchesFlat(batches) = input
    /\ Len(batches) =
         IF input = <<>> THEN 0 ELSE 1 + Cardinality(BatchBreaks(input))

\* C31: for every sequence of samples, batch_samples yields batches whose
\* samples share one timestamp and one bare path and in which no subpart
\* occurs twice; together they hold every input sample exactly once, in
\* input order, and a new batch starts exactly where the timestamp or the
\* bare path changes from one sample to the next.
C31_BatchesPartitionInput ==
    bs.out.status # "pending" =>
        /\ bs.out.status = "ok"
        /\ BatchesOf(bs.in, bs.out.batches)

\* the stream blocks whose publish attempt returned
Published ==
    {dq_obs.attempts["stream"][k].item :
       k \in {j \in 1..Len(dq_obs.attempts["stream"]) :
                dq_obs.attempts["stream"][j].ok}}

\* C32: handle.close() of a stream block handed to the stream queue is
\* called by the sender, when and only when the block has been published:
\* every close is made by _submit_streams_to for a published block, every
\* published block is closed, and no block is closed twice.
C32_CloseIffPublished ==
    /\ \A k \in 1..Len(dq_obs.closes) :
         /\ dq_obs.closes[k].by = "_submit_streams_to"
         /\ dq_obs.closes[k].item \in Published
    /\ \A i \in Published : \E k \in 1..Len(dq_obs.closes) :
         dq_obs.closes[k].item = i
    /\ \A k, l \in 1..Len(dq_obs.closes) :
         dq_obs.closes[k].item = dq_obs.closes[l].item => k = l
\* C33: in the Ingestor no Buffer.submit is made on a stream buffer that
\* was never aligned and no RTCifier.map_to_rtc on an RTCifier that was
\* never aligned, whatever messages arrive, STATUS messages of status
\* version 0 among them.
C33_AlignedBeforeUse == ing_obs.unaligned = {}
\* C34: every detect or configure call that has sent its request completes
\* in the end, with the datagram that carries its key or with TimeoutError
\* when its timer has fired, also when two outstanding requests share a
\* key: no future stays pending for ever.
C34_RequestCompletes ==
    \A i \in 1..MaxRequests :
        (Len(cp.futs) >= i) ~> (Len(cp.futs) >= i /\ fut_done(cp.futs[i]))
\* the bytes of the frames sent, in order
RECURSIVE WireOf(_)
WireOf(payloads) ==
    IF payloads = <<>> THEN <<>>
    ELSE wire(Head(payloads)) \o WireOf(Tail(payloads))

\* the bytes handed to data_received so far, whatever the calls were
BytesReceived ==
    SubSeq(WireOf(snp_obs.sent), 1,
           Len(WireOf(snp_obs.sent)) - Len(snp_net))

\* the frames sent of which all bytes are among the first n of the stream
RECURSIVE CompleteFrames(_, _)
CompleteFrames(payloads, n) ==
    IF payloads = <<>> \/ Len(wire(Head(payloads))) > n THEN <<>>
    ELSE <<Head(payloads)>>
           \o CompleteFrames(Tail(payloads), n - Len(wire(Head(payloads))))

\* what one call of data_received with all these bytes delivers
OneCall(bytes) == data_received_stream(SensorNode2Protocol_init, bytes).out

\* C35: the messages delivered do not depend on how the byte stream is
\* split into data_received calls (they are what one call with all the
\* bytes received so far delivers), and they are the messages of the
\* decodable frames whose bytes have all arrived, each once, in the order
\* of the stream.
C35_SplitInvariant ==
    /\ snp_obs.received = OneCall(BytesReceived)
    /\ snp_obs.received =
          WellFormedMessages(CompleteFrames(snp_obs.sent, Len(BytesReceived)))
\* C36: once a STATUS has been accepted the Ingestor never buffers again:
\* the gate stays open, the pre-status buffer is empty after every later
\* message, and a later message that carries samples or stream data (and
\* whose own samples can be batched) is processed in the call that
\* delivers it; a later STATUS that is discarded as late changes neither
\* the alignment of the RTCifier or of the stream buffers nor the gate.
C36_Step ==
    (MessageStep /\ ing.had_status) =>
        LET obj == ing_obs'.last
        IN  /\ ing'.had_status
            /\ ing'.pre_status_buffer = <<>>
            /\ (obj.type_ \in {"SAMPLES", "STREAM"}
                  /\ batch_samples(obj.samples).status = "ok") =>
                  /\ ing_obs'.processed # <<>>
                  /\ ing_obs'.processed[Len(ing_obs'.processed)]
                        = ing_obs'.arrived
            /\ (obj.type_ = "STATUS"
                  /\ obj.retardation > StatusMaxRetardation) => ing' = ing

C36_GateStaysOpen == [][C36_Step]_vars
\* C37: after every submit that returns, the open batch holds fewer than
\* batch_size samples; every block that submit or align hands to on_emit
\* holds at least one sample and at most batch_size; and a block emitted
\* because the batch reached batch_size (any block of a submit but the one
\* a discontinuity pushed out first) holds exactly batch_size samples.
C37_Step ==
    LET first_seq_abs == FirstSeqAbs(sb_obs'.last_rel)
        discontinuity == /\ ~sb.batch_none
                         /\ sb.batch_data # <<>>
                         /\ first_seq_abs
                              # sb.batch_seq_abs0 + Len(sb.batch_data)
    IN  /\ (SubmitStep /\ sb_obs'.raised = sb_obs.raised) =>
              Len(sb'.batch_data) < BatchSize
        /\ (SubmitStep \/ AlignStep) =>
              \A k \in 1..Len(NewBlocks) :
                  /\ Len(NewBlocks[k].data) >= 1
                  /\ Len(NewBlocks[k].data) <= BatchSize
        /\ SubmitStep =>
              \A k \in 1..Len(NewBlocks) :
                  (k > 1 \/ ~discontinuity) =>
                      Len(NewBlocks[k].data) = BatchSize
        /\ AlignStep => Len(NewBlocks) <= 1

C37_BatchSizeBound == [][C37_Step]_vars

\* submits that all returned have pushed out a short batch at a
\* discontinuity and a full batch at the threshold, and some samples are
\* left in the open batch
C37_Witness ==
    /\ sb_obs.raised = 0
    /\ sb_obs.restarts = 0
    /\ sb.batch_data # <<>>
    /\ Len(sb.batch_data) < BatchSize
    /\ \E k \in 1..Len(sb_obs.emitted) :
          Len(sb_obs.emitted[k].data) = BatchSize
    /\ \E k \in 1..Len(sb_obs.emitted) :
          Len(sb_obs.emitted[k].data) < BatchSize
\* wraparound_aware_minus of every Timeline(W, slack) with 0 < slack <= W
\* up to the size of the one under check, for all v1, v2 in [0, W): the
\* result is congruent to v1 - v2 modulo W and lies in (-slack, W - slack]
WindowLaw ==
    \A W \in 1..TlW : \A slack \in 1..W :
        \A v1 \in 0..(W - 1) : \A v2 \in 0..(W - 1) :
            LET d == wraparound_aware_minus(W, slack, v1, v2)
            IN  /\ (d - (v1 - v2)) % W = 0
                /\ d > -slack
                /\ d <= W - slack

\* C38: wraparound_aware_minus(v1, v2) is congruent to v1 - v2 modulo W
\* and lies in (-slack, W - slack]; so feed_and_transform and forward
\* leave (local_tip - remote_tip) mod W as it was (only reset changes it)
\* and remote_tip stays in [0, W).
C38_Step ==
    /\ WindowLaw
    /\ tl_obs'.op \in {"feed", "forward"} =>
          (tl'.local_tip - tl'.remote_tip) % TlW
            = (tl.local_tip - tl.remote_tip) % TlW
    /\ tl'.remote_tip \in 0..(TlW - 1)

C38_TipsCongruent == [][C38_Step]_vars

\* after a reset to a timestamp other than 0 a feed has moved the remote
\* tip across the wrap
C38_Witness ==
    /\ tl_obs.op = "feed"
    /\ tl.remote_tip < tl_obs.pre.remote_tip
    /\ tl.local_tip > tl_obs.pre.local_tip
    /\ (tl.local_tip - tl.remote_tip) % TlW # 0
\* the batch of the greatest timestamp among the batches of bare path p,
\* the earliest of them on a tie
MostRecentOf(batches, p) ==
    LET of_p == {i \in 1..Len(batches) : batches[i].bare_path = p}
        best == CHOOSE i \in of_p :
                   \A j \in of_p :
                       \/ batches[j].timestamp < batches[i].timestamp
                       \/ (batches[j].timestamp = batches[i].timestamp
                             /\ i <= j)
    IN  batches[best]

\* C39: submit_batches enqueues one batch for each bare path of its input,
\* the one of the greatest timestamp among the batches of that path (the
\* earliest on a tie), and no other batch.
C39_MostRecentPerPath ==
    sink_obs.calls > 0 =>
        LET paths == {sink_obs.input[i].bare_path :
                        i \in 1..Len(sink_obs.input)}
            enq == sink_obs.enqueued
        IN  /\ {enq[k] : k \in 1..Len(enq)}
                  = {MostRecentOf(sink_obs.input, p) : p \in paths}
            /\ Len(enq) = Cardinality(paths)
\* the coroutine goes on after a detect that succeeded: the future it
\* awaited has a response that SetupPacket.unpack takes
ResumeAfterDetect ==
    /\ run.pc = "await_detect"
    /\ run'.pc # run.pc
    /\ run.cp.futs[run.cur].state = "result"
    /\ Len(run.cp.futs[run.cur].result) = SetupPacketSize

\* C40: in one round of the loop, after a detect that succeeded, a
\* configure request is sent if and only if the destination address the
\* node reports differs from local_address (no sntp_server is configured):
\* then the coroutine waits for the answer to a new request, and otherwise
\* it goes to sleep without a request.
C40_Step ==
    ResumeAfterDetect =>
        LET dest_addr == run.cp.futs[run.cur].result[SetupPacketSize]
        IN  IF dest_addr # LocalAddress
            THEN /\ run'.pc = "await_configure"
                 /\ Len(run'.cp.futs) = Len(run.cp.futs) + 1
            ELSE /\ run'.pc = "sleep"
                 /\ run'.cp.futs = run.cp.futs

C40_ConfigureIffDiffers == [][C40_Step]_vars
====
